---- MODULE Spec2Model ----
(***************************************************************************)
(* Model of the UAE Law MCP server: the document id resolver, the citation *)
(* parser, validator and formatter, the provision lookup tools and the     *)
(* tool dispatch, and of the ingestion pipeline: the HTML extraction       *)
(* helpers, the rate-limited HTTP client (called in sequence and by        *)
(* several callers at once) and the ingestion phases.                      *)
(*                                                                         *)
(* Strings are TLA+ strings handled character by character (Len, SubSeq,   *)
(* \o).  The module is ASCII only, so three Arabic items are written with  *)
(* stand-in characters:                                                    *)
(*   "@"  the word U+0627 U+0644 U+0645 U+0627 U+062F U+0629 ("al-madda",  *)
(*        Article), as one character                                       *)
(*   "~"  the word U+0645 U+0646 ("min", of), as one character             *)
(*   "^"  any other Arabic letter                                          *)
(***************************************************************************)
EXTENDS Integers, Sequences, FiniteSets, TLC

VARIABLES
    docs,    \* table legal_documents, in the order the engine visits rows
    provs,   \* table legal_provisions, in the order the engine visits rows
    tool,    \* name of the last tool called ("none" before the first call)
    arg,     \* input of the last tool call
    res,     \* response of the last tool call
    eu,      \* table eu_references: whether it exists, and its rows
    fin,     \* input of the pure function under study
    fout,    \* its output
    fpc,     \* "idle" | "start" | "done"
    now,             \* Date.now(), in milliseconds
    latency,         \* time the server takes to answer a request, in milliseconds
    lastRequestTime, \* fetcher.ts: let lastRequestTime
    timer,           \* the time at which the pending setTimeout fires
    attempt,         \* fetchWithRateLimit: the loop variable
    response,        \* status of the response to the last request, 0 while there is none
    result,          \* the FetchResult the last fetchWithRateLimit call returned
    error,           \* message of the last exception raised
    fetchPc,         \* position in fetchWithRateLimit
    requests,        \* number of requests the current call has sent
    lastSent,        \* start time of the last outbound request of the process, -1 if none
    prevSent,        \* start time of the outbound request before it, -1 if none
    laws,            \* the laws handed to the ingestion phase
    skipFetch,       \* --skip-fetch
    phaseZone,       \* the phase: "federal" | "difc" | "adgm"
    li,              \* index in laws of the law the loop handles next
    ingestResults,   \* IngestResult[] of the phase
    pageHtml,        \* the page the phase is about to parse
    ipc,             \* position in the ingestion phase
    calls            \* the fetchWithRateLimit calls of a concurrent caller, each up to its first request

ingestVars ==
    <<now, latency, lastRequestTime, timer, attempt, response, result, error, fetchPc, requests,
      lastSent, prevSent, laws, skipFetch, phaseZone, li, ingestResults, pageHtml, ipc, calls>>

vars == <<docs, provs, eu, tool, arg, res, fin, fout, fpc, ingestVars>>

-----------------------------------------------------------------------------
(* Characters and strings *)

\* SQL NULL in a column, JavaScript null / undefined in a value
Null == "<null>"

At(s, i) == SubSeq(s, i, i)

From(s, i) == SubSeq(s, i, Len(s))

Digits == {"0", "1", "2", "3", "4", "5", "6", "7", "8", "9"}

LowerAlpha == "abcdefghijklmnopqrstuvwxyz"

UpperAlpha == "ABCDEFGHIJKLMNOPQRSTUVWXYZ"

LowerLetters == {At(LowerAlpha, i) : i \in 1..26}

UpperLetters == {At(UpperAlpha, i) : i \in 1..26}

Letters == LowerLetters \cup UpperLetters

\* JavaScript \s and String.prototype.trim: space, tab, line feed
WS == {" ", "\t", "\n"}

\* characters "." does not match
LineTerminators == {"\n"}

ToLowerMap == [c \in UpperLetters |-> At(LowerAlpha, CHOOSE i \in 1..26 : At(UpperAlpha, i) = c)]

\* ASCII-only case folding of one character (String.toLowerCase on the
\* modelled alphabet, SQLite LOWER(), the /i flag, SQLite LIKE)
LowerChar(c) == IF c \in UpperLetters THEN ToLowerMap[c] ELSE c

RECURSIVE LowerStr(_)
LowerStr(s) == IF s = "" THEN "" ELSE LowerChar(At(s, 1)) \o LowerStr(From(s, 2))

\* first position >= i whose character is not in class C (greedy C*)
RECURSIVE Skip(_, _, _)
Skip(s, i, C) == IF i <= Len(s) /\ At(s, i) \in C THEN Skip(s, i + 1, C) ELSE i

RECURSIVE TrimEnd(_)
TrimEnd(s) == IF s # "" /\ At(s, Len(s)) \in WS THEN TrimEnd(SubSeq(s, 1, Len(s) - 1)) ELSE s

\* String.prototype.trim
Trim(s) == TrimEnd(From(s, Skip(s, 1, WS)))

\* literal lit occurs in s at position i
StartsAt(s, i, lit) == i >= 1 /\ i + Len(lit) - 1 <= Len(s) /\ SubSeq(s, i, i + Len(lit) - 1) = lit

\* the same under the /i flag (lit is given in lower case)
StartsAtCI(s, i, lit) ==
    /\ i >= 1 /\ i + Len(lit) - 1 <= Len(s)
    /\ lit = "" \/ LowerChar(At(s, i)) = At(lit, 1)
    /\ LowerStr(SubSeq(s, i, i + Len(lit) - 1)) = lit

Contains(hay, needle) == \E i \in 1..(Len(hay) - Len(needle) + 1) : StartsAt(hay, i, needle)

HasLineTerminator(s) == \E i \in 1..Len(s) : At(s, i) \in LineTerminators

\* a decimal number as template literals print it
RECURSIVE NumStr(_)
NumStr(n) ==
    IF n < 10 THEN At("0123456789", n + 1)
    ELSE NumStr(n \div 10) \o At("0123456789", (n % 10) + 1)

-----------------------------------------------------------------------------
(* parseCitation (validate-citation.ts) *)

Min(S) == CHOOSE m \in S : \A n \in S : m <= n

ArArticle == "@"

ArMin == "~"

\* a failed String.prototype.match
NoMatch == [matched |-> FALSE, documentRef |-> "", articleRef |-> ""]

\* the value parseCitation returns; articleRef "" stands for a missing articleRef
Hit(d, a) == [matched |-> TRUE, documentRef |-> d, articleRef |-> a]

\* (\d+[A-Za-z]*) at p: the position after it, 0 when there is no digit at p
NumberEnd(s, p) ==
    LET d == Skip(s, p, Digits)
    IN  IF d = p THEN 0 ELSE Skip(s, d, Letters)

\* \s*(\d+[A-Za-z]*)\s*[,;]?\s+(.+)$ at p: greedy, with the backtracking that
\* gives the optional separator up when no white space follows it
PrefixRest(s, p) ==
    LET p1 == Skip(s, p, WS)
        a  == NumberEnd(s, p1)
        q  == Skip(s, a, WS)
        r  == Skip(s, q + 1, WS)
    IN  IF a = 0 THEN NoMatch
        ELSE IF /\ q <= Len(s)
                /\ At(s, q) \in {",", ";"}
                /\ r > q + 1
                /\ r <= Len(s)
                /\ ~HasLineTerminator(From(s, r))
             THEN Hit(Trim(From(s, r)), SubSeq(s, p1, a - 1))
        ELSE IF q > a /\ q <= Len(s) /\ ~HasLineTerminator(From(s, q))
             THEN Hit(Trim(From(s, q)), SubSeq(s, p1, a - 1))
        ELSE NoMatch

\* ^(?:alts)<PrefixRest> under /i, the alternatives tried in order
PrefixForm(s, alts) ==
    LET try(k) == IF StartsAtCI(s, 1, alts[k]) THEN PrefixRest(s, 1 + Len(alts[k])) ELSE NoMatch
        H == {k \in 1..Len(alts) : try(k).matched}
    IN  IF H = {} THEN NoMatch ELSE try(Min(H))

\* \s*(?:alts)\s*(\d+[A-Za-z]*)$ at p under /i: the number, "" when no match
SuffixTail(s, p, alts) ==
    LET p1 == Skip(s, p, WS)
        try(k) == IF StartsAtCI(s, p1, alts[k])
                  THEN LET p3 == Skip(s, p1 + Len(alts[k]), WS)
                       IN  IF NumberEnd(s, p3) = Len(s) + 1 THEN From(s, p3) ELSE ""
                  ELSE ""
        H == {k \in 1..Len(alts) : try(k) # ""}
    IN  IF H = {} THEN "" ELSE try(Min(H))

\* ^(.+?)[,;]<SuffixTail>: the lazy group stops at the first separator after
\* which the tail matches
SuffixForm(s, alts) ==
    LET C == {i \in 1..(Len(s) - 1) :
                /\ At(s, i + 1) \in {",", ";"}
                /\ ~HasLineTerminator(SubSeq(s, 1, i))
                /\ SuffixTail(s, i + 2, alts) # ""}
    IN  IF C = {} THEN NoMatch
        ELSE Hit(Trim(SubSeq(s, 1, Min(C))), SuffixTail(s, Min(C) + 2, alts))

\* /^@\s+(\d+[A-Za-z]*)\s+(?:~\s+)?(.+)$/
arabicMatch(s) ==
    LET p1 == Skip(s, 1 + Len(ArArticle), WS)
        a  == NumberEnd(s, p1)
        q  == Skip(s, a, WS)
        r  == Skip(s, q + Len(ArMin), WS)
    IN  IF ~StartsAt(s, 1, ArArticle) \/ p1 = 1 + Len(ArArticle) \/ a = 0 \/ q = a THEN NoMatch
        ELSE IF /\ StartsAt(s, q, ArMin)
                /\ r > q + Len(ArMin)
                /\ r <= Len(s)
                /\ ~HasLineTerminator(From(s, r))
             THEN Hit(Trim(From(s, r)), SubSeq(s, p1, a - 1))
        ELSE IF q <= Len(s) /\ ~HasLineTerminator(From(s, q))
             THEN Hit(Trim(From(s, q)), SubSeq(s, p1, a - 1))
        ELSE NoMatch

\* /^(?:Article|Art\.?)\s*(\d+[A-Za-z]*)\s*[,;]?\s+(.+)$/i
artFirst(s) == PrefixForm(s, <<"article", "art.", "art">>)

\* /^(?:Section|s\.?)\s*(\d+[A-Za-z]*)\s*[,;]?\s+(.+)$/i
secFirst(s) == PrefixForm(s, <<"section", "s.", "s">>)

\* /^(.+?)[,;]\s*(?:Article|Art\.?)\s*(\d+[A-Za-z]*)$/i
artLast(s) == SuffixForm(s, <<"article", "art.", "art">>)

\* /^(.+?)[,;]\s*(?:Section|s\.?)\s*(\d+[A-Za-z]*)$/i
secLast(s) == SuffixForm(s, <<"section", "s.", "s">>)

\* /^([a-z]+-[\d-]+)\s*[,;]\s*(?:art\.?|s\.?)\s*(\d+[A-Za-z]*)$/i
idBased(s) ==
    LET l == Skip(s, 1, Letters)
        m == Skip(s, l + 1, Digits \cup {"-"})
        q == Skip(s, m, WS)
        n == SuffixTail(s, q + 1, <<"art.", "art", "s.", "s">>)
    IN  IF /\ l > 1
           /\ StartsAt(s, l, "-")
           /\ m > l + 1
           /\ q <= Len(s)
           /\ At(s, q) \in {",", ";"}
           /\ n # ""
        THEN Hit(Trim(SubSeq(s, 1, m - 1)), n)
        ELSE NoMatch

\* mutant: the suffix forms tried before the prefix forms
parseCitation_suffixFirst(citation) ==
    LET trimmed == Trim(citation)
    IN  IF arabicMatch(trimmed).matched THEN arabicMatch(trimmed)
        ELSE IF artLast(trimmed).matched THEN artLast(trimmed)
        ELSE IF secLast(trimmed).matched THEN secLast(trimmed)
        ELSE IF artFirst(trimmed).matched THEN artFirst(trimmed)
        ELSE IF secFirst(trimmed).matched THEN secFirst(trimmed)
        ELSE IF idBased(trimmed).matched THEN idBased(trimmed)
        ELSE Hit(trimmed, "")

parseCitation(citation) ==
    LET trimmed == Trim(citation)
    IN  IF arabicMatch(trimmed).matched THEN arabicMatch(trimmed)
        ELSE IF artFirst(trimmed).matched THEN artFirst(trimmed)
        ELSE IF secFirst(trimmed).matched THEN secFirst(trimmed)
        ELSE IF artLast(trimmed).matched THEN artLast(trimmed)
        ELSE IF secLast(trimmed).matched THEN secLast(trimmed)
        ELSE IF idBased(trimmed).matched THEN idBased(trimmed)
        ELSE Hit(trimmed, "")

-----------------------------------------------------------------------------
(* stripHtml (fetcher.ts) *)

\* stand-ins for the characters outside ASCII that stripHtml writes or removes
EmDash == "{"

RightQuote == "}"

LeftDoubleQuote == "["

RightDoubleQuote == "]"

ZeroWidthSpace == "|"

\* String.prototype.replace with a global pattern that is a literal text
\* the least position of H, none when H is empty
First(H, none) == IF H = {} THEN none ELSE Min(H)

\* String.prototype.replace with a literal under /g: the leftmost match at
\* j is replaced, the scan goes on behind it
RECURSIVE ReplaceAll(_, _, _)
RECURSIVE ReplaceAllAt(_, _, _, _)
ReplaceAllAt(s, pat, rep, j) ==
    IF j = 0 THEN s
    ELSE SubSeq(s, 1, j - 1) \o rep \o ReplaceAll(From(s, j + Len(pat)), pat, rep)

ReplaceAll(s, pat, rep) == ReplaceAllAt(s, pat, rep, First({i \in 1..Len(s) : StartsAt(s, i, pat)}, 0))

\* position of the first ">" at or after i, 0 when there is none
NextGt(s, i) == First({k \in i..Len(s) : At(s, k) = ">"}, 0)

\* length of a match of /<br\s*\/?>/i at the head of s, 0 when there is none
BrLength(s) ==
    LET p == Skip(s, 4, WS)
        q == IF StartsAt(s, p, "/") THEN p + 1 ELSE p
    IN  IF StartsAtCI(s, 1, "<br") /\ StartsAt(s, q, ">") THEN q ELSE 0

\* .replace(/<br\s*\/?>/gi, '\n')
RECURSIVE ReplaceBr(_)
RECURSIVE ReplaceBrAt(_, _)
ReplaceBrAt(s, j) ==
    IF j = 0 THEN s
    ELSE SubSeq(s, 1, j - 1) \o "\n" \o ReplaceBr(From(s, j + BrLength(From(s, j))))

ReplaceBr(s) == ReplaceBrAt(s, First({i \in 1..Len(s) : At(s, i) = "<" /\ BrLength(From(s, i)) > 0}, 0))

\* .replace(/<[^>]+>/g, ' '): a "<", at least one character, the next ">"
RECURSIVE ReplaceTags(_)
RECURSIVE ReplaceTagsAt(_, _)
ReplaceTagsAt(s, j) ==
    IF j = 0 THEN s
    ELSE SubSeq(s, 1, j - 1) \o " " \o ReplaceTags(From(s, NextGt(s, j + 1) + 1))

ReplaceTags(s) == ReplaceTagsAt(s, First({i \in 1..Len(s) : At(s, i) = "<" /\ NextGt(s, i + 1) > i + 1}, 0))

\* .replace(/[ \t]+/g, ' ')
RECURSIVE CollapseBlanks(_)
RECURSIVE CollapseBlanksAt(_, _)
CollapseBlanksAt(s, j) ==
    IF j = 0 THEN s
    ELSE SubSeq(s, 1, j - 1) \o " " \o CollapseBlanks(From(s, Skip(s, j, {" ", "\t"})))

CollapseBlanks(s) == CollapseBlanksAt(s, First({i \in 1..Len(s) : At(s, i) \in {" ", "\t"}}, 0))

\* end of a match of /\n\s*\n/ at the head of s: the last line feed of the
\* white space that follows the first character; 0 when there is no match
BlankLinesEnd(s) ==
    LET e == Skip(s, 2, WS)
        N == {k \in 2..(e - 1) : At(s, k) = "\n"}
    IN  IF At(s, 1) = "\n" /\ N # {} THEN CHOOSE k \in N : \A m \in N : m <= k ELSE 0

\* .replace(/\n\s*\n/g, '\n')
RECURSIVE CollapseBlankLines(_)
RECURSIVE CollapseBlankLinesAt(_, _)
CollapseBlankLinesAt(s, j) ==
    IF j = 0 THEN s
    ELSE SubSeq(s, 1, j - 1) \o "\n" \o CollapseBlankLines(From(s, j + BlankLinesEnd(From(s, j))))

CollapseBlankLines(s) ==
    CollapseBlankLinesAt(s, First({i \in 1..Len(s) : At(s, i) = "\n" /\ BlankLinesEnd(From(s, i)) > 0}, 0))

\* end of a match of /^\s+|\s+$/m at position i of s, 0 when there is none:
\* at the start of a line the whole run of white space, elsewhere the longest
\* part of the run that ends at the end of a line
LineTrimEnd(s, i) ==
    LET e == Skip(s, i, WS)
        atLineStart == i = 1 \/ At(s, i - 1) = "\n"
        K == {k \in i..(e - 1) : k = Len(s) \/ At(s, k + 1) = "\n"}
    IN  IF e = i THEN 0
        ELSE IF atLineStart THEN e - 1
        ELSE IF K # {} THEN CHOOSE k \in K : \A m \in K : m <= k
        ELSE 0

\* .replace(/^\s+|\s+$/gm, ''), from position i on
RECURSIVE TrimLines(_, _)
RECURSIVE TrimLinesAt(_, _, _)
TrimLinesAt(s, i, j) ==
    IF j = 0 THEN From(s, i)
    ELSE SubSeq(s, i, j - 1) \o TrimLines(s, LineTrimEnd(s, j) + 1)

TrimLines(s, i) == TrimLinesAt(s, i, First({k \in i..Len(s) : At(s, k) \in WS /\ LineTrimEnd(s, k) > 0}, 0))

\* the entity replacements, in the order of the chain
DecodeEntities(s) ==
    LET s1  == ReplaceAll(s, "&nbsp;", " ")
        s2  == ReplaceAll(s1, "&#xA0;", " ")
        s3  == ReplaceAll(s2, "&#160;", " ")
        s4  == ReplaceAll(s3, "&amp;", "&")
        s5  == ReplaceAll(s4, "&lt;", "<")
        s6  == ReplaceAll(s5, "&gt;", ">")
        s7  == ReplaceAll(s6, "&quot;", "\"")
        s8  == ReplaceAll(s7, "&#39;", "'")
        s9  == ReplaceAll(s8, "&#8212;", EmDash)
        s10 == ReplaceAll(s9, "&#8217;", RightQuote)
        s11 == ReplaceAll(s10, "&#8220;", LeftDoubleQuote)
    IN  ReplaceAll(s11, "&#8221;", RightDoubleQuote)

stripHtml(html) ==
    Trim(TrimLines(CollapseBlankLines(CollapseBlanks(
        ReplaceAll(DecodeEntities(ReplaceTags(ReplaceBr(html))), ZeroWidthSpace, ""))), 1))

-----------------------------------------------------------------------------
(* The HTML parsers (fetcher.ts): provisions of one fetched page *)

\* stand-ins: the Arabic chapter words U+0627 U+0644 U+0628 U+0627 U+0628
\* ("al-bab") and U+0627 U+0644 U+0641 U+0635 U+0644 ("al-fasl"), one character
\* each, and the en dash U+2013
ArBab == "#"

ArFasl == "$"

EnDash == "="

\* the characters of the modelled alphabet inside [U+0600-U+06FF]
ArabicLetters == {ArArticle, ArMin, "^", ArBab, ArFasl}

\* content.substring(0, 12000)
MaxContent == 12000

\* if (content.length > 5)
MinContent == 5

\* length of the word of the alternation that stands at position i, 0 if none
\* (under the /i flag, ci, the words are given in lower case)
WordAt(s, i, words, ci) ==
    LET M == {w \in words : IF ci THEN StartsAtCI(s, i, w) ELSE StartsAt(s, i, w)}
    IN  IF M = {} THEN 0 ELSE Len(CHOOSE w \in M : TRUE)

\* The head of articlePattern / sectionPattern at position i.  form.parens is
\* the federal head  word \s* \(? \s* (\d+) \s* \)? \s* ; otherwise the head
\* is  word \s* (\d+[A-Za-z]*) \s* .  body is where the lazy body starts.
HeadAt(s, i, form) ==
    LET w  == WordAt(s, i, form.words, form.ci)
        p1 == Skip(s, i + w, WS)
        p2 == IF form.parens /\ StartsAt(s, p1, "(") THEN Skip(s, p1 + 1, WS) ELSE p1
        p3 == Skip(s, p2, Digits)
        p4 == IF form.parens THEN p3 ELSE Skip(s, p3, Letters)
        p5 == Skip(s, p4, WS)
        p6 == IF form.parens /\ StartsAt(s, p5, ")") THEN Skip(s, p5 + 1, WS) ELSE p5
    IN  IF w > 0 /\ p3 > p2
        THEN [ok |-> TRUE, num |-> SubSeq(s, p2, p4 - 1), body |-> p6]
        ELSE [ok |-> FALSE, num |-> "", body |-> i]

\* first position >= i where the head matches (the lookahead of the lazy
\* body, and the start of the next match), Len(s) + 1 when there is none
NextHead(s, i, form) == First({k \in i..Len(s) : HeadAt(s, k, form).ok}, Len(s) + 1)

\* the matches of the exec loop from position i on: where each starts, its
\* number (group 1) and its raw content (group 2)
RECURSIVE Matches(_, _, _)
Matches(s, i, form) ==
    LET a == NextHead(s, i, form)
        h == HeadAt(s, a, form)
        e == NextHead(s, h.body, form)
    IN  IF a > Len(s) THEN <<>>
        ELSE <<[index |-> a, num |-> h.num, raw |-> SubSeq(s, h.body, e - 1)]>>
                 \o Matches(s, e, form)

\* end of the lazy (.+?)(?=<|$) that starts at b: the first position after b
\* that is "<" or the end, with no line terminator passed; 0 when it fails
LazyTextStop(s, k) == IF k > Len(s) \/ At(s, k) = "<" THEN k ELSE 0

LazyTextEnd(s, e) ==
    IF e > Len(s) THEN e
    ELSE LazyTextStop(s, First({k \in e..Len(s) : At(s, k) = "<" \/ At(s, k) \in LineTerminators}, Len(s) + 1))

\* end of the heading text when the white space after the separator ends at
\* p and the separator at q: the greedy \s* gives back one character at a time
RECURSIVE HeadingTextEnd(_, _, _)
HeadingTextEnd(s, p, q) ==
    LET e == IF p <= Len(s) /\ At(s, p) \notin LineTerminators THEN LazyTextEnd(s, p + 1) ELSE 0
    IN  IF e > 0 THEN e
        ELSE IF p > q THEN HeadingTextEnd(s, p - 1, q)
        ELSE 0

\* end (exclusive) of a match of the English chapter pattern
\* /(?:words)\s+(\d+[A-Za-z]*)\s*[-:]\s*(.+?)(?=<|$)/gi at i, 0 if none
ChapterEndEn(s, i, words) ==
    LET w  == WordAt(s, i, words, TRUE)
        p1 == Skip(s, i + w, WS)
        p2 == Skip(s, p1, Digits)
        p3 == Skip(s, Skip(s, p2, Letters), WS)
    IN  IF w > 0 /\ p1 > i + w /\ p2 > p1 /\ p3 <= Len(s) /\ At(s, p3) \in {"-", EnDash, ":"}
        THEN HeadingTextEnd(s, Skip(s, p3 + 1, WS), p3 + 1)
        ELSE 0

\* end (exclusive) of a match of the Arabic chapter pattern
\* /(?:al-bab|al-fasl)\s+([U+0600-U+06FF\s]+)/g at i, 0 if none
ChapterEndAr(s, i) ==
    LET e == Skip(s, i + 1, ArabicLetters \cup WS)
    IN  IF i <= Len(s) /\ At(s, i) \in {ArBab, ArFasl} /\ e >= i + 3 /\ At(s, i + 1) \in WS
        THEN e ELSE 0

ChapterEnd(s, i, chap) == IF chap.arabic THEN ChapterEndAr(s, i) ELSE ChapterEndEn(s, i, chap.words)

\* the while loop over chapterScan.exec(beforeArticle): the text of the last
\* match found from position i on, last when there is none
\* the matches <<start, end>> of the chapter pattern at the positions from i on
ChapterMatches(s, i, chap) ==
    {<<k, ChapterEnd(s, k, chap)>> : k \in i..Len(s)} \ {<<k, 0>> : k \in i..Len(s)}

\* the leftmost of the matches M, <<>> when there is none
Leftmost(M) == IF M = {} THEN <<>> ELSE CHOOSE m \in M : \A n \in M : m[1] <= n[1]

RECURSIVE LastChapter(_, _, _, _)
RECURSIVE LastChapterAt(_, _, _, _)
LastChapterAt(s, chap, last, m) ==
    IF m = <<>> THEN last
    ELSE LastChapter(s, m[2], chap, SubSeq(s, m[1], m[2] - 1))

LastChapter(s, i, chap, last) == LastChapterAt(s, chap, last, Leftmost(ChapterMatches(s, i, chap)))

\* position of the first "<" at or after i, 0 when there is none
NextLt(s, i) == First({k \in i..Len(s) : At(s, k) = "<"}, 0)

\* length of a match of (?:strong|b|h\d) under /i at position i, 0 if none
TagNameLen(s, i) ==
    IF StartsAtCI(s, i, "strong") THEN 6
    ELSE IF StartsAtCI(s, i, "b") THEN 1
    ELSE IF StartsAtCI(s, i, "h") /\ i + 1 <= Len(s) /\ At(s, i + 1) \in Digits THEN 2
    ELSE 0

\* /<(?:strong|b|h\d)[^>]*>([^<]+)<\/(?:strong|b|h\d)>/i at position i:
\* whether it matches and its group 1
TitleAtEn(s, i) ==
    LET n == TagNameLen(s, i + 1)
        g == NextGt(s, i + 1 + n)
        t == NextLt(s, g + 1)
        m == TagNameLen(s, t + 2)
    IN  IF /\ StartsAt(s, i, "<") /\ n > 0 /\ g > 0 /\ t > g + 1
           /\ StartsAt(s, t + 1, "/") /\ m > 0 /\ StartsAt(s, t + 2 + m, ">")
        THEN [ok |-> TRUE, text |-> SubSeq(s, g + 1, t - 1)]
        ELSE [ok |-> FALSE, text |-> ""]

\* /<[^>]*>([^<]*)<\/[^>]*>/ at position i
TitleAtAr(s, i) ==
    LET g == NextGt(s, i + 1)
        t == NextLt(s, g + 1)
    IN  IF /\ StartsAt(s, i, "<") /\ g > 0 /\ t > 0
           /\ StartsAt(s, t + 1, "/") /\ NextGt(s, t + 2) > 0
        THEN [ok |-> TRUE, text |-> SubSeq(s, g + 1, t - 1)]
        ELSE [ok |-> FALSE, text |-> ""]

\* rawContent.match(...): title is stripHtml(group 1).trim() of the leftmost
\* match, '' when there is none
titleOf(raw, arabic) ==
    LET T(i) == IF arabic THEN TitleAtAr(raw, i) ELSE TitleAtEn(raw, i)
        I == {i \in 1..Len(raw) : T(i).ok}
    IN  IF I = {} THEN "" ELSE Trim(stripHtml(T(CHOOSE i \in I : \A j \in I : i <= j).text))

\* The body of the exec loop for matches k.. of ms: the chapter carried in
\* currentChapter, and one provision pushed when the content is long enough.
\* cfg: prefix of provision_ref, language, the chapter pattern.
truncated_whole(content) == content

\* content.substring(0, 12000)
truncated(content) == SubSeq(content, 1, Min({Len(content), MaxContent}))

RECURSIVE Provisions(_, _, _, _, _)
Provisions(html, ms, k, currentChapter, cfg) ==
    IF k > Len(ms) THEN <<>>
    ELSE LET m == ms[k]
             lastChapter == LastChapter(SubSeq(html, 1, m.index - 1), 1, cfg.chap, "")
             chapter == IF lastChapter # "" THEN Trim(stripHtml(lastChapter)) ELSE currentChapter
             content == stripHtml(m.raw)
             prov == [provision_ref |-> cfg.prefix \o m.num,
                      chapter |-> IF chapter = "" THEN Null ELSE chapter,
                      section |-> m.num,
                      title |-> titleOf(m.raw, cfg.chap.arabic),
                      content |-> truncated(content),
                      language |-> cfg.language]
         IN  (IF Len(content) > MinContent THEN <<prov>> ELSE <<>>)
                 \o Provisions(html, ms, k + 1, chapter, cfg)

Replaces_onTie(prov, existing) == Len(prov.content) >= Len(existing.content)

\* prov.content.length > existing.content.length
Replaces(prov, existing) == Len(prov.content) > Len(existing.content)

\* the Map byRef after the loop over provisions k.., as the sequence of its
\* values in insertion order (set on a key that is present keeps its place)
RECURSIVE byRef(_, _, _)
byRef(provisions, k, map) ==
    IF k > Len(provisions) THEN map
    ELSE LET prov == provisions[k]
             I == {j \in 1..Len(map) : map[j].provision_ref = prov.provision_ref}
             j == CHOOSE x \in I : TRUE
         IN  IF I = {} THEN byRef(provisions, k + 1, Append(map, prov))
             ELSE IF Replaces(prov, map[j]) THEN byRef(provisions, k + 1, [map EXCEPT ![j] = prov])
             ELSE byRef(provisions, k + 1, map)

\* the provisions array of parseFederalLawHtml before deduplication
federalProvisions(html) ==
    LET isArabic == Contains(html, ArArticle)
        form == [words |-> IF isArabic THEN {ArArticle} ELSE {"Article"}, ci |-> FALSE, parens |-> TRUE]
        cfg  == [prefix |-> "art", language |-> IF isArabic THEN "ar" ELSE "en",
                 chap |-> [arabic |-> isArabic, words |-> {"chapter", "part"}]]
    IN  Provisions(html, Matches(html, 1, form), 1, "", cfg)

\* the provisions array of parseDifcLawHtml before deduplication
difcProvisions(html) ==
    LET form == [words |-> {"article", "section"}, ci |-> TRUE, parens |-> FALSE]
        cfg  == [prefix |-> "art", language |-> "en",
                 chap |-> [arabic |-> FALSE, words |-> {"part", "chapter"}]]
    IN  Provisions(html, Matches(html, 1, form), 1, "", cfg)

\* the provisions array of parseAdgmRegulationHtml before deduplication
adgmProvisions(html) ==
    LET form == [words |-> {"section", "rule", "regulation"}, ci |-> TRUE, parens |-> FALSE]
        cfg  == [prefix |-> "s", language |-> "en",
                 chap |-> [arabic |-> FALSE, words |-> {"part", "chapter", "division"}]]
    IN  Provisions(html, Matches(html, 1, form), 1, "", cfg)

\* The parsers return the fields of the law entry unchanged, the zone, the
\* language and the deduplicated provisions; the model keeps the last three.
\* (definitions and description are extracted independently of provisions.)
parseFederalLawHtml(html) ==
    [legal_zone |-> "federal",
     language |-> IF Contains(html, ArArticle) THEN "ar" ELSE "en",
     provisions |-> byRef(federalProvisions(html), 1, <<>>)]

parseDifcLawHtml(html) ==
    [legal_zone |-> "difc", language |-> "en", provisions |-> byRef(difcProvisions(html), 1, <<>>)]

parseAdgmRegulationHtml(html) ==
    [legal_zone |-> "adgm", language |-> "en", provisions |-> byRef(adgmProvisions(html), 1, <<>>)]

-----------------------------------------------------------------------------
(* The rate-limited HTTP client (fetcher.ts) and the ingestion phases        *)
(* (ingest.ts).  Time is Date.now() in milliseconds; an await on setTimeout  *)
(* ends when the clock reaches the timer.                                    *)

toolVars == <<docs, provs, eu, tool, arg, res, fin, fout, fpc>>

phaseVars == <<latency, laws, skipFetch, phaseZone, li, ingestResults, pageHtml, ipc>>

MIN_DELAY_MS == 500

\* the default of the parameter maxRetries; no caller passes another value
maxRetries == 3

MOJ_BASE == "https://moj.gov.ae"

DIFC_BASE == "https://www.difclaws.com"

ADGM_BASE == "https://adgm.com"

\* no FetchResult
NoResult == [status |-> 0, body |-> "", url |-> ""]

\* neither the client nor an ingestion phase runs
NoIngestion ==
    /\ now = 0
    /\ latency = 0
    /\ lastRequestTime = 0
    /\ timer = 0
    /\ attempt = 0
    /\ response = 0
    /\ result = NoResult
    /\ error = Null
    /\ fetchPc = "idle"
    /\ requests = 0
    /\ lastSent = -1
    /\ prevSent = -1
    /\ laws = <<>>
    /\ skipFetch = FALSE
    /\ phaseZone = Null
    /\ li = 0
    /\ ingestResults = <<>>
    /\ pageHtml = ""
    /\ ipc = "off"
    /\ calls = <<>>

\* response.status === 429 || response.status >= 500
Retryable(status) == status = 429 \/ status >= 500

\* mutant: the first retry after one second
backoff_fromOneSecond(a) == (2 ^ a) * 1000

\* Math.pow(2, attempt + 1) * 1000
backoff(a) == (2 ^ (a + 1)) * 1000

\* fetchFederalContent, fetchDIFCContent, fetchADGMContent: the URL requested
fullUrl(z, lawUrl) ==
    IF StartsAt(lawUrl, 1, "http") THEN lawUrl
    ELSE IF z = "federal" THEN MOJ_BASE \o lawUrl
    ELSE IF z = "difc" THEN DIFC_BASE \o lawUrl
    ELSE ADGM_BASE \o lawUrl

\* what the servers answer: the page of the law, or an error page
HttpStatuses == {200, 404, 429, 503}

LawPage(z) == IF z = "adgm" THEN "Section 2 abcdefg " ELSE "Article 2 abcdefg "

ErrorPage == "<h1>Error</h1>"

Body(status, z) == IF status = 200 THEN LawPage(z) ELSE ErrorPage

\* a fast and a slow server
Latencies == {100, 600}

\* rateLimit up to its await: now, elapsed, and the timer when too early
RateLimit ==
    /\ fetchPc = "rateLimit"
    /\ LET elapsed == now - lastRequestTime
       IN  IF elapsed < MIN_DELAY_MS
           THEN /\ timer' = now + (MIN_DELAY_MS - elapsed)
                /\ fetchPc' = "rateLimitWait"
                /\ UNCHANGED lastRequestTime
           ELSE /\ lastRequestTime' = now
                /\ fetchPc' = "fetch"
                /\ UNCHANGED timer
    /\ UNCHANGED <<now, attempt, response, result, error, requests, lastSent, prevSent>>
    /\ UNCHANGED phaseVars
    /\ UNCHANGED <<toolVars, calls>>

\* the timer of rateLimit fires: lastRequestTime = Date.now()
RateLimitResume ==
    /\ fetchPc = "rateLimitWait"
    /\ now' = timer
    /\ lastRequestTime' = timer
    /\ fetchPc' = "fetch"
    /\ UNCHANGED <<timer, attempt, response, result, error, requests, lastSent, prevSent>>
    /\ UNCHANGED phaseVars
    /\ UNCHANGED <<toolVars, calls>>

\* fetch(url, ...): the request leaves the process
Fetch ==
    /\ fetchPc = "fetch"
    /\ prevSent' = lastSent
    /\ lastSent' = now
    /\ requests' = requests + 1
    /\ response' = 0
    /\ fetchPc' = "response"
    /\ UNCHANGED <<now, lastRequestTime, timer, attempt, result, error>>
    /\ UNCHANGED phaseVars
    /\ UNCHANGED <<toolVars, calls>>

\* a response arrives: back off and try again, or return the FetchResult
FetchResponse ==
    /\ fetchPc = "response"
    /\ \E status \in HttpStatuses :
        /\ now' = now + latency
        /\ response' = status
        /\ IF Retryable(status) /\ attempt < maxRetries
           THEN /\ timer' = now + latency + backoff(attempt)
                /\ fetchPc' = "backoff"
                /\ UNCHANGED result
           ELSE /\ result' = [status |-> status,
                              body |-> Body(status, phaseZone),
                              url |-> fullUrl(phaseZone, laws[li].url)]
                /\ fetchPc' = "returned"
                /\ UNCHANGED timer
    /\ UNCHANGED <<lastRequestTime, attempt, error, requests, lastSent, prevSent>>
    /\ UNCHANGED phaseVars
    /\ UNCHANGED <<toolVars, calls>>

\* fetch rejects (no connection): fetchWithRateLimit rejects with its error
FetchRejects ==
    /\ fetchPc = "response"
    /\ now' = now + latency
    /\ error' = "fetch failed"
    /\ fetchPc' = "threw"
    /\ UNCHANGED <<lastRequestTime, timer, attempt, response, result, requests, lastSent, prevSent>>
    /\ UNCHANGED phaseVars
    /\ UNCHANGED <<toolVars, calls>>

\* the backoff timer fires: continue, attempt++, and the loop test; the
\* statement after the loop raises the terminal failure
Continue ==
    /\ fetchPc = "backoff"
    /\ now' = timer
    /\ attempt' = attempt + 1
    /\ IF attempt + 1 <= maxRetries
       THEN /\ fetchPc' = "fetch"
            /\ UNCHANGED error
       ELSE /\ fetchPc' = "threw"
            /\ error' = "Failed to fetch " \o fullUrl(phaseZone, laws[li].url) \o " after "
                            \o NumStr(maxRetries) \o " retries"
    /\ UNCHANGED <<lastRequestTime, timer, response, result, requests, lastSent, prevSent>>
    /\ UNCHANGED phaseVars
    /\ UNCHANGED <<toolVars, calls>>

\* the parser of the phase
parseHtml(z, html) ==
    IF z = "federal" THEN parseFederalLawHtml(html)
    ELSE IF z = "difc" THEN parseDifcLawHtml(html)
    ELSE parseAdgmRegulationHtml(html)

IngestResult(law, provisions, status, z) ==
    [id |-> law.id, name |-> law.shortName, provisions |-> provisions, status |-> status, zone |-> z]

\* results.push({..., status: 'cached'})
Cached(law, existing, z) == IngestResult(law, Len(existing.provisions), "cached", z)

\* results.push({..., status: 'ok'})
Ok(law, parsed, z) == IngestResult(law, Len(parsed.provisions), "ok", z)

\* the catch block: status `FAILED: ${msg.substring(0, 80)}`
Failed(law, msg, z) ==
    IngestResult(law, 0, "FAILED: " \o SubSeq(msg, 1, Min({Len(msg), 80})), z)

\* a file as the phase finds it: missing, readable, or unreadable; a seed file
\* that is readable holds a ParsedDocument or text that is no JSON
SeedFiles == {"missing", "document", "no json"}

SourceFiles == {"missing", "page", "unreadable"}

\* the ParsedDocument a readable seed file holds, written by an earlier run
SeedDocuments == {[provisions |-> <<>>], [provisions |-> <<"art1", "art2">>]}

\* parse the html and write the seed file: the result pushed
parseAndWrite(law, page, z, written) ==
    IF written THEN Ok(law, parseHtml(z, page), z)
    ELSE Failed(law, "EACCES: permission denied, open", z)

\* One iteration of the for loop up to the parser, to its first await or to
\* its end: a law answered from the cached seed file, or the cached source
\* file read, or the call of fetch*Content (no FetchResult exists yet).
\* JSON.parse of the seed file is outside the try block: its exception ends
\* the phase.
IngestLaw ==
    /\ ipc = "loop"
    /\ li <= Len(laws)
    /\ \E seedFile \in SeedFiles, sourceFile \in SourceFiles, existing \in SeedDocuments :
        IF skipFetch /\ seedFile # "missing"
        THEN IF seedFile = "document"
             THEN /\ ingestResults' = Append(ingestResults, Cached(laws[li], existing, phaseZone))
                  /\ li' = li + 1
                  /\ UNCHANGED <<ipc, error, fetchPc, attempt, requests, pageHtml>>
             ELSE /\ ipc' = "threw"
                  /\ error' = "Unexpected token o in JSON"
                  /\ UNCHANGED <<ingestResults, li, fetchPc, attempt, requests, pageHtml>>
        ELSE IF skipFetch /\ sourceFile # "missing"
        THEN IF sourceFile = "page"
             THEN /\ pageHtml' = LawPage(phaseZone)
                  /\ ipc' = "parse"
                  /\ UNCHANGED <<ingestResults, li, error, fetchPc, attempt, requests>>
             ELSE /\ ingestResults' =
                        Append(ingestResults,
                               Failed(laws[li], "EACCES: permission denied, open", phaseZone))
                  /\ li' = li + 1
                  /\ UNCHANGED <<ipc, error, fetchPc, attempt, requests, pageHtml>>
        ELSE /\ ipc' = "fetching"
             /\ fetchPc' = "rateLimit"
             /\ attempt' = 0
             /\ requests' = 0
             /\ UNCHANGED <<ingestResults, li, error, pageHtml>>
    /\ result' = NoResult
    /\ response' = 0
    /\ UNCHANGED <<now, lastRequestTime, timer, lastSent, prevSent, latency, laws, skipFetch, phaseZone>>
    /\ UNCHANGED <<toolVars, calls>>

\* fetch*Content returned: html = result.body is written to the source file
IngestFetched ==
    /\ ipc = "fetching"
    /\ fetchPc = "returned"
    /\ \E sourceWritten \in BOOLEAN :
        IF sourceWritten
        THEN /\ pageHtml' = result.body
             /\ ipc' = "parse"
             /\ UNCHANGED <<ingestResults, li>>
        ELSE /\ ingestResults' =
                    Append(ingestResults,
                           Failed(laws[li], "EACCES: permission denied, open", phaseZone))
             /\ li' = li + 1
             /\ ipc' = "loop"
             /\ UNCHANGED pageHtml
    /\ fetchPc' = "idle"
    /\ UNCHANGED <<now, lastRequestTime, timer, attempt, response, result, error, requests,
                   lastSent, prevSent, latency, laws, skipFetch, phaseZone>>
    /\ UNCHANGED <<toolVars, calls>>

\* the html is parsed, the seed file written and the law recorded
IngestParse ==
    /\ ipc = "parse"
    /\ \E written \in BOOLEAN :
        ingestResults' = Append(ingestResults, parseAndWrite(laws[li], pageHtml, phaseZone, written))
    /\ li' = li + 1
    /\ ipc' = "loop"
    /\ pageHtml' = ""
    /\ UNCHANGED <<now, lastRequestTime, timer, attempt, response, result, error, fetchPc,
                   requests, lastSent, prevSent, latency, laws, skipFetch, phaseZone>>
    /\ UNCHANGED <<toolVars, calls>>

\* fetch*Content rejected: the catch block records the law as failed
IngestFetchFailed ==
    /\ ipc = "fetching"
    /\ fetchPc = "threw"
    /\ ingestResults' = Append(ingestResults, Failed(laws[li], error, phaseZone))
    /\ li' = li + 1
    /\ ipc' = "loop"
    /\ fetchPc' = "idle"
    /\ UNCHANGED <<now, lastRequestTime, timer, attempt, response, result, error, requests,
                   lastSent, prevSent, latency, laws, skipFetch, phaseZone, pageHtml>>
    /\ UNCHANGED <<toolVars, calls>>

\* the loop is over: return results
IngestReturn ==
    /\ ipc = "loop"
    /\ li > Len(laws)
    /\ ipc' = "returned"
    /\ UNCHANGED <<now, lastRequestTime, timer, attempt, response, result, error, fetchPc,
                   requests, lastSent, prevSent, latency, laws, skipFetch, phaseZone, li, ingestResults,
                   pageHtml>>
    /\ UNCHANGED <<toolVars, calls>>

-----------------------------------------------------------------------------
(* The database as the tools read it *)

\* no tool call is in progress
NoCall ==
    /\ tool = "none"
    /\ arg = Null
    /\ res = Null

\* no pure function is under study
Idle ==
    /\ fin = ""
    /\ fout = ""
    /\ fpc = "idle"

\* the eu_references table does not exist
NoEuTable == [present |-> FALSE, rows |-> <<>>]

\* index of the row a query without ORDER BY returns through .get():
\* the first row, in the order the engine visits the table, that satisfies
\* the WHERE clause; 0 when there is none
FirstIndex(rows, P(_)) ==
    LET H == {i \in 1..Len(rows) : P(rows[i])}
    IN  IF H = {} THEN 0 ELSE Min(H)

\* SQLite's LIKE: "%" matches any run of characters, "_" any one character,
\* letters match without regard to ASCII case (no case_sensitive_like pragma
\* is set on the connection); NULL LIKE p is not true
RECURSIVE LikeText(_, _)
LikeText(p, s) ==
    IF p = "" THEN s = ""
    ELSE IF At(p, 1) = "%" THEN LikeText(From(p, 2), s) \/ (s # "" /\ LikeText(p, From(s, 2)))
    ELSE /\ s # ""
         /\ (At(p, 1) = "_" \/ LowerChar(At(p, 1)) = LowerChar(At(s, 1)))
         /\ LikeText(From(p, 2), From(s, 2))

Like(v, p) == v # Null /\ LikeText(p, v)

\* SQLite's LOWER(): NULL stays NULL
SqlLower(v) == IF v = Null THEN Null ELSE LowerStr(v)

-----------------------------------------------------------------------------
(* resolveDocumentId (statute-id.ts) *)

\* positions j at which /(\d+)\s*\/\s*(\d{4})/ matches the text from j on
FdlStarts(t) ==
    {j \in 1..Len(t) :
        LET e == Skip(t, j, Digits)
            q == Skip(t, e, WS)
            y == Skip(t, q + 1, WS)
        IN  /\ e > j
            /\ StartsAt(t, q, "/")
            /\ y + 3 <= Len(t)
            /\ \A k \in y..(y + 3) : At(t, k) \in Digits}

\* trimmed.match(/(?:No\.?\s*)?(\d+)\s*\/\s*(\d{4})/): the leftmost match; the
\* optional "No." captures nothing and the digit run it precedes is the
\* leftmost one either way
fdlPattern(t) ==
    IF FdlStarts(t) = {} THEN [matched |-> FALSE, num |-> "", year |-> ""]
    ELSE LET j == Min(FdlStarts(t))
             e == Skip(t, j, Digits)
             y == Skip(t, Skip(t, e, WS) + 1, WS)
         IN  [matched |-> TRUE, num |-> SubSeq(t, j, e - 1), year |-> SubSeq(t, y, y + 3)]

\* SELECT id FROM legal_documents WHERE id = ?
directMatch(db, t) ==
    LET P(d) == d.id = t
    IN  FirstIndex(db, P)

\* ... WHERE LOWER(short_name) = LOWER(?) LIMIT 1
shortNameMatch(db, t) ==
    LET P(d) == d.short_name # Null /\ SqlLower(d.short_name) = LowerStr(t)
    IN  FirstIndex(db, P)

\* ... WHERE id = ? OR id = ? OR id = ? LIMIT 1, when the number/year pattern matches
fdlId(db, t) ==
    LET m == fdlPattern(t)
        P(d) == \/ d.id = "fdl-" \o m.num \o "-" \o m.year
                \/ d.id = "fl-" \o m.num \o "-" \o m.year
                \/ d.id = "cd-" \o m.num \o "-" \o m.year
    IN  IF m.matched THEN FirstIndex(db, P) ELSE 0

\* ... WHERE title LIKE ? OR short_name LIKE ? OR title_en LIKE ? LIMIT 1
titleResult(db, t) ==
    LET pat == "%" \o t \o "%"
        P(d) == Like(d.title, pat) \/ Like(d.short_name, pat) \/ Like(d.title_en, pat)
    IN  FirstIndex(db, P)

\* ... WHERE LOWER(title) LIKE LOWER(?) OR LOWER(short_name) LIKE LOWER(?) OR LOWER(title_en) LIKE LOWER(?) LIMIT 1
lowerResult(db, t) ==
    LET pat == LowerStr("%" \o t \o "%")
        P(d) == Like(SqlLower(d.title), pat) \/ Like(SqlLower(d.short_name), pat) \/ Like(SqlLower(d.title_en), pat)
    IN  FirstIndex(db, P)

\* mutant: the title stage consulted before the id stage
resolveDocumentId_titleFirst(db, input) ==
    LET trimmed == Trim(input)
    IN  IF trimmed = "" THEN Null
        ELSE IF titleResult(db, trimmed) # 0 THEN db[titleResult(db, trimmed)].id
        ELSE IF directMatch(db, trimmed) # 0 THEN db[directMatch(db, trimmed)].id
        ELSE IF shortNameMatch(db, trimmed) # 0 THEN db[shortNameMatch(db, trimmed)].id
        ELSE IF fdlId(db, trimmed) # 0 THEN db[fdlId(db, trimmed)].id
        ELSE IF lowerResult(db, trimmed) # 0 THEN db[lowerResult(db, trimmed)].id
        ELSE Null

resolveDocumentId(db, input) ==
    LET trimmed == Trim(input)
    IN  IF trimmed = "" THEN Null
        ELSE IF directMatch(db, trimmed) # 0 THEN db[directMatch(db, trimmed)].id
        ELSE IF shortNameMatch(db, trimmed) # 0 THEN db[shortNameMatch(db, trimmed)].id
        ELSE IF fdlId(db, trimmed) # 0 THEN db[fdlId(db, trimmed)].id
        ELSE IF titleResult(db, trimmed) # 0 THEN db[titleResult(db, trimmed)].id
        ELSE IF lowerResult(db, trimmed) # 0 THEN db[lowerResult(db, trimmed)].id
        ELSE Null

-----------------------------------------------------------------------------
(* Tool responses *)

\* JavaScript truthiness of a string | null | undefined value
Truthy(v) == v # Null /\ v # ""

\* a ?? b
Coalesce(a, b) == IF a # Null THEN a ELSE b

\* generateResponseMetadata: data_source, jurisdiction and disclaimer are
\* constants (freshness is read from db_metadata, a table outside the model);
\* note is what get_provision and the EU tools add, Null when they add none
generateResponseMetadata(note) ==
    [data_source |->
        "UAE Ministry of Justice (moj.gov.ae), DIFC Laws (difclaws.com), ADGM Legal Framework (adgm.com) "
        \o EmDash \o " UAE Ministry of Justice, DIFC Courts, ADGM Registration Authority",
     jurisdiction |-> "AE",
     disclaimer |->
        "This data is sourced from official UAE government portals. "
        \o "Arabic is the authoritative language for federal legislation; English translations are unofficial unless from DIFC/ADGM. "
        \o "The UAE has a three-layer legal system: federal law, DIFC (Dubai free zone), and ADGM (Abu Dhabi free zone). "
        \o "Always verify with the official portals at moj.gov.ae, difclaws.com, or adgm.com.",
     note |-> note]

\* ToolResponse<T>: results and _metadata
Response(results, note) ==
    [threw |-> FALSE,
     results |-> results,
     metadata |-> generateResponseMetadata(note)]

\* the call ends with an exception (a property read on an undefined row)
Threw == [threw |-> TRUE, results |-> Null, metadata |-> Null]

\* provision_ref.replace(/^(?:art|s)/, '')
articleNumber(ref) ==
    IF StartsAt(ref, 1, "art") THEN From(ref, 4)
    ELSE IF StartsAt(ref, 1, "s") THEN From(ref, 2)
    ELSE ref

-----------------------------------------------------------------------------
(* validate_citation (validate-citation.ts) *)

ValidateResult(valid, citation, normalized, docId, title, ref, status, zone, warnings) ==
    [valid |-> valid, citation |-> citation, normalized |-> normalized,
     document_id |-> docId, document_title |-> title, provision_ref |-> ref,
     status |-> status, legal_zone |-> zone, warnings |-> warnings]

\* SELECT provision_ref FROM legal_provisions WHERE document_id = ? AND
\* (provision_ref = ? OR provision_ref = ? OR provision_ref = ? OR section = ?)
citedProvision(pt, docId, r) ==
    LET P(p) == /\ p.document_id = docId
                /\ \/ p.provision_ref = r
                   \/ p.provision_ref = "art" \o r
                   \/ p.provision_ref = "s" \o r
                   \/ p.section = r
    IN  FirstIndex(pt, P)

\* mutant: a law not yet in force is warned about too, as check_currency does
statusWarnings_notYetWarns(status) ==
    IF status = "repealed" THEN <<"WARNING: This law has been repealed.">>
    ELSE IF status = "amended"
         THEN <<"Note: This law has been amended. Verify you are referencing the current version.">>
    ELSE IF status = "not_yet_in_force" THEN <<"This law has not yet entered into force.">>
    ELSE <<>>

statusWarnings(status) ==
    IF status = "repealed" THEN <<"WARNING: This law has been repealed.">>
    ELSE IF status = "amended"
         THEN <<"Note: This law has been amended. Verify you are referencing the current version.">>
    ELSE <<>>

\* mutant: DIFC documents labelled like federal ones
zoneLabel_difcArticle(zone) == IF zone = "adgm" THEN "Section" ELSE "Article"

\* the prefix of the normalized citation
zoneLabel(zone) == IF zone = "federal" THEN "Article" ELSE "Section"

\* mutant: the row is looked up by its title
docIndex_byTitle(db, id) ==
    LET P(d) == d.title = id
    IN  FirstIndex(db, P)

\* SELECT ... FROM legal_documents WHERE id = ?, as the index of the row (0: no row)
docIndex(db, id) ==
    LET P(d) == d.id = id
    IN  FirstIndex(db, P)

\* lines 124-154: the provision was looked up, pi is its row (0: no row)
validateProvision(pt, citation, parsed, docId, doc, pi) ==
    IF pi = 0
    THEN Response(ValidateResult(FALSE, citation, Null, docId, doc.title, Null, Null, doc.legal_zone,
                                 Append(statusWarnings(doc.status), "Provision \"" \o parsed.articleRef
                                                  \o "\" not found in " \o doc.title)), Null)
    ELSE Response(ValidateResult(TRUE, citation,
                                 zoneLabel(doc.legal_zone) \o " " \o articleNumber(pt[pi].provision_ref)
                                     \o ", " \o doc.title,
                                 docId, doc.title, pt[pi].provision_ref, doc.status, doc.legal_zone,
                                 statusWarnings(doc.status)), Null)

\* lines 113-169: the document row was read
validateDocument(pt, citation, parsed, docId, doc) ==
    IF Truthy(parsed.articleRef)
    THEN validateProvision(pt, citation, parsed, docId, doc, citedProvision(pt, docId, parsed.articleRef))
    ELSE Response(ValidateResult(TRUE, citation, doc.title, docId, doc.title, Null, doc.status,
                                 doc.legal_zone, statusWarnings(doc.status)), Null)

\* lines 109-111: reading a field of a row that does not exist throws
validateRow(db, pt, citation, parsed, docId, di) ==
    IF di = 0 THEN Threw ELSE validateDocument(pt, citation, parsed, docId, db[di])

\* lines 98-107: the reference was resolved to docId
validateResolved(db, pt, citation, parsed, docId) ==
    IF ~Truthy(docId)
    THEN Response(ValidateResult(FALSE, citation, Null, Null, Null, Null, Null, Null,
                                 <<"Document not found: \"" \o parsed.documentRef \o "\"">>), Null)
    ELSE validateRow(db, pt, citation, parsed, docId, docIndex(db, docId))

\* lines 86-97: the citation was parsed
validateParsed(db, pt, citation, parsed) ==
    IF ~parsed.matched
    THEN Response(ValidateResult(FALSE, citation, Null, Null, Null, Null, Null, Null,
                                 <<"Could not parse citation format">>), Null)
    ELSE validateResolved(db, pt, citation, parsed, resolveDocumentId(db, parsed.documentRef))

validateCitationTool(db, pt, citation) == validateParsed(db, pt, citation, parseCitation(citation))

-----------------------------------------------------------------------------
(* check_currency (check-currency.ts) *)

CurrencyResult(docId, title, status, issued, inForce, zone, warnings) ==
    [document_id |-> docId, title |-> title, status |-> status, issued_date |-> issued,
     in_force_date |-> inForce, legal_zone |-> zone, warnings |-> warnings]

currencyWarnings(status) ==
    IF status = "repealed" THEN <<"This law has been repealed and is no longer in force.">>
    ELSE IF status = "not_yet_in_force" THEN <<"This law has not yet entered into force.">>
    ELSE <<>>

\* lines 46-75: the document row is read; a field of a row that does not
\* exist throws
checkCurrencyRow(db, di) ==
    IF di = 0 THEN Threw
    ELSE Response(CurrencyResult(db[di].id, db[di].title, db[di].status, db[di].issued_date,
                                 db[di].in_force_date, db[di].legal_zone,
                                 currencyWarnings(db[di].status)), Null)

\* mutant: the document row is read without the not-found guard
checkCurrencyResolved_unguarded(db, document_id, resolvedId) ==
    checkCurrencyRow(db, docIndex(db, resolvedId))

\* lines 31-44: the reference was resolved to resolvedId
checkCurrencyResolved(db, document_id, resolvedId) ==
    IF ~Truthy(resolvedId)
    THEN Response(CurrencyResult(document_id, "Unknown", "not_found", Null, Null, Null,
                                 <<"Document not found: \"" \o document_id \o "\"">>), Null)
    ELSE checkCurrencyRow(db, docIndex(db, resolvedId))

checkCurrency(db, document_id) ==
    checkCurrencyResolved(db, document_id, resolveDocumentId(db, document_id))

-----------------------------------------------------------------------------
(* get_provision (get-provision.ts) *)

ProvisionResult(docId, doc, p) ==
    [document_id |-> docId, document_title |-> doc.title, provision_ref |-> p.provision_ref,
     chapter |-> p.chapter, section |-> p.section, title |-> p.title, content |-> p.content,
     article_number |-> articleNumber(p.provision_ref), url |-> doc.url,
     legal_zone |-> doc.legal_zone, language |-> p.language]

\* the rows of a document, ORDER BY id
RECURSIVE OrderById(_, _)
OrderById(pt, S) ==
    IF S = {} THEN <<>>
    ELSE LET i == CHOOSE k \in S : \A m \in S : pt[k].id <= pt[m].id
         IN  <<pt[i]>> \o OrderById(pt, S \ {i})

\* mutant: the flexible LIKE lookup is tried before the exact ones
findProvision_likeFirst(pt, docId, r) ==
    LET Q1(p) == p.document_id = docId /\ p.provision_ref = r
        Q2(p) == p.document_id = docId /\ p.provision_ref = "art" \o r
        Q3(p) == p.document_id = docId /\ p.provision_ref = "s" \o r
        Q4(p) == p.document_id = docId /\ p.section = r
        Q5(p) == /\ p.document_id = docId
                 /\ (Like(p.provision_ref, "%" \o r \o "%") \/ Like(p.section, "%" \o r \o "%"))
    IN  IF FirstIndex(pt, Q5) # 0 THEN FirstIndex(pt, Q5)
        ELSE IF FirstIndex(pt, Q1) # 0 THEN FirstIndex(pt, Q1)
        ELSE IF FirstIndex(pt, Q2) # 0 THEN FirstIndex(pt, Q2)
        ELSE IF FirstIndex(pt, Q3) # 0 THEN FirstIndex(pt, Q3)
        ELSE FirstIndex(pt, Q4)

\* the five lookups of a provision, each tried only when the ones before it
\* found no row
findProvision(pt, docId, r) ==
    LET Q1(p) == p.document_id = docId /\ p.provision_ref = r
        Q2(p) == p.document_id = docId /\ p.provision_ref = "art" \o r
        Q3(p) == p.document_id = docId /\ p.provision_ref = "s" \o r
        Q4(p) == p.document_id = docId /\ p.section = r
        Q5(p) == /\ p.document_id = docId
                 /\ (Like(p.provision_ref, "%" \o r \o "%") \/ Like(p.section, "%" \o r \o "%"))
    IN  IF FirstIndex(pt, Q1) # 0 THEN FirstIndex(pt, Q1)
        ELSE IF FirstIndex(pt, Q2) # 0 THEN FirstIndex(pt, Q2)
        ELSE IF FirstIndex(pt, Q3) # 0 THEN FirstIndex(pt, Q3)
        ELSE IF FirstIndex(pt, Q4) # 0 THEN FirstIndex(pt, Q4)
        ELSE FirstIndex(pt, Q5)

\* lines 91-117: the provision was looked up, pi is its row (0: no row)
getProvisionFound(pt, resolvedId, docRow, ref, pi) ==
    IF pi # 0
    THEN Response(<<ProvisionResult(resolvedId, docRow, pt[pi])>>, Null)
    ELSE Response(<<>>, "Provision \"" \o ref \o "\" not found in document \"" \o resolvedId \o "\"")

\* lines 120-139: every provision of the document
getProvisionAll(resolvedId, docRow, all) ==
    Response([k \in 1..Len(all) |-> ProvisionResult(resolvedId, docRow, all[k])], Null)

\* lines 54-139: the document row was read, ref is the reference asked for
getProvisionOf(pt, resolvedId, docRow, ref) ==
    IF Truthy(ref)
    THEN getProvisionFound(pt, resolvedId, docRow, ref, findProvision(pt, resolvedId, Trim(ref)))
    ELSE getProvisionAll(resolvedId, docRow,
                         OrderById(pt, {i \in 1..Len(pt) : pt[i].document_id = resolvedId}))

\* lines 46-51
getProvisionRow(db, pt, input, resolvedId, di) ==
    IF di = 0 THEN Response(<<>>, Null)
    ELSE getProvisionOf(pt, resolvedId, db[di],
                        Coalesce(input.article, Coalesce(input.provision_ref, input.section)))

\* lines 36-44: the reference was resolved to resolvedId
getProvisionResolved(db, pt, input, resolvedId) ==
    IF ~Truthy(resolvedId)
    THEN Response(<<>>, "No document found matching \"" \o input.document_id \o "\"")
    ELSE getProvisionRow(db, pt, input, resolvedId, docIndex(db, resolvedId))

getProvision(db, pt, input) ==
    getProvisionResolved(db, pt, input, resolveDocumentId(db, input.document_id))

-----------------------------------------------------------------------------
(* validate_eu_compliance (validate-eu-compliance.ts) *)

ComplianceResult(docId, title, st, found, zone, warnings, recommendations) ==
    [document_id |-> docId, document_title |-> title, compliance_status |-> st,
     eu_references_found |-> found, legal_zone |-> zone, warnings |-> warnings,
     recommendations |-> recommendations]

\* SELECT COUNT(*) over the rows that satisfy P
CountRows(rows, P(_)) == Cardinality({i \in 1..Len(rows) : P(rows[i])})

repealedWarnings(status) == IF status = "repealed" THEN <<"This law has been repealed.">> ELSE <<>>

repealedRecommendations(status) ==
    IF status = "repealed" THEN <<"Check for replacement legislation.">> ELSE <<>>

\* lines 81-135: the references were counted
validateEUCounted(resolvedId, doc, euRefCount, completeCount, partialCount, unknownCount) ==
    IF euRefCount = 0
    THEN Response(ComplianceResult(resolvedId, doc.title, "not_applicable", 0, doc.legal_zone, <<>>,
              <<"No EU/international cross-references found for this law. This may be a purely domestic statute.">>),
                  Null)
    ELSE IF completeCount > 0 /\ partialCount = 0 /\ unknownCount = 0
    THEN Response(ComplianceResult(resolvedId, doc.title, "compliant", euRefCount, doc.legal_zone,
                                   repealedWarnings(doc.status), repealedRecommendations(doc.status)), Null)
    ELSE IF partialCount > 0
    THEN Response(ComplianceResult(resolvedId, doc.title, "partial", euRefCount, doc.legal_zone,
                                   Append(repealedWarnings(doc.status), NumStr(partialCount)
                                       \o " EU/international reference(s) have partial implementation status."),
                                   repealedRecommendations(doc.status)), Null)
    ELSE Response(ComplianceResult(resolvedId, doc.title, "unclear", euRefCount, doc.legal_zone,
                                   repealedWarnings(doc.status),
                                   IF unknownCount > 0
                                   THEN Append(repealedRecommendations(doc.status), NumStr(unknownCount)
                                       \o " EU/international reference(s) have unknown implementation status. Manual review recommended.")
                                   ELSE repealedRecommendations(doc.status)), Null)

\* lines 53-109: the document row was read; a missing eu_references table
\* makes the COUNT query throw, which is caught
validateEUDocument(et, input, resolvedId, doc) ==
    LET Counted(e) == /\ e.document_id = resolvedId
                      /\ (Truthy(input.eu_document_id) => e.eu_document_id = input.eu_document_id)
        Complete(e) == e.document_id = resolvedId /\ e.implementation_status = "complete"
        Partial(e)  == e.document_id = resolvedId /\ e.implementation_status = "partial"
        Unknown(e)  == e.document_id = resolvedId /\ e.implementation_status = "unknown"
    IN  IF ~et.present
        THEN Response(ComplianceResult(resolvedId, doc.title, "not_applicable", 0, doc.legal_zone,
                                       <<"EU/international references not available in this database tier">>,
                                       <<>>), Null)
        ELSE validateEUCounted(resolvedId, doc, CountRows(et.rows, Counted), CountRows(et.rows, Complete),
                               CountRows(et.rows, Partial), CountRows(et.rows, Unknown))

\* lines 46-48: reading a field of a row that does not exist throws
validateEURow(db, et, input, resolvedId, di) ==
    IF di = 0 THEN Threw ELSE validateEUDocument(et, input, resolvedId, db[di])

\* lines 31-44: the reference was resolved to resolvedId
validateEUResolved(db, et, input, resolvedId) ==
    IF ~Truthy(resolvedId)
    THEN Response(ComplianceResult(input.document_id, "Unknown", "not_applicable", 0, Null,
                                   <<"Document not found: \"" \o input.document_id \o "\"">>, <<>>), Null)
    ELSE validateEURow(db, et, input, resolvedId, docIndex(db, resolvedId))

validateEUCompliance(db, et, input) ==
    validateEUResolved(db, et, input, resolveDocumentId(db, input.document_id))

-----------------------------------------------------------------------------
(* get_uae_implementations (get-uae-implementations.ts) *)

\* the implementation statuses, ascending in SQLite's BINARY collation
StatusOrder == <<"complete", "partial", "unknown">>

\* MAX(er.implementation_status) over the rows G of a group
maxStatus(G) ==
    LET R == {k \in 1..Len(StatusOrder) : \E e \in G : e.implementation_status = StatusOrder[k]}
    IN  IF R = {} THEN Null ELSE StatusOrder[CHOOSE k \in R : \A j \in R : j <= k]

\* the row of the result for the group G of references of the document ld
UAEImplementationResult(ld, G, referenceType) ==
    [document_id |-> ld.id, document_title |-> ld.title, status |-> ld.status,
     reference_type |-> referenceType, implementation_status |-> maxStatus(G),
     is_primary |-> IF \E e \in G : e.is_primary_implementation = 1 THEN 1 ELSE 0,
     reference_count |-> Cardinality(G), legal_zone |-> ld.legal_zone]

\* the positions in eu_references of the joined rows the WHERE clause keeps
implementationRows(db, et, input) ==
    {i \in 1..Len(et.rows) :
        /\ et.rows[i].eu_document_id = input.eu_document_id
        /\ docIndex(db, et.rows[i].document_id) # 0
        /\ (input.primary_only => et.rows[i].is_primary_implementation = 1)
        /\ (input.in_force_only => db[docIndex(db, et.rows[i].document_id)].status = "in_force")}

\* GROUP BY ld.id, er.reference_type: the groups, each named by the position
\* of its first row
implementationGroups(et, W) ==
    {i \in W : \A j \in W : (/\ et.rows[j].document_id = et.rows[i].document_id
                               /\ et.rows[j].reference_type = et.rows[i].reference_type) => i <= j}

\* ORDER BY is_primary DESC, reference_count DESC: a before b
implementationBefore(a, b) ==
    \/ a.is_primary > b.is_primary
    \/ a.is_primary = b.is_primary /\ a.reference_count > b.reference_count

\* the rows of the result in the order of the ORDER BY clause; rows the clause
\* does not order come in the order of their first references
implementationResults(db, et, W) ==
    LET heads == implementationGroups(et, W)
        row(i) == UAEImplementationResult(
                      db[docIndex(db, et.rows[i].document_id)],
                      {et.rows[j] : j \in {k \in W : /\ et.rows[k].document_id = et.rows[i].document_id
                                                     /\ et.rows[k].reference_type = et.rows[i].reference_type}},
                      et.rows[i].reference_type)
        rank(i) == 1 + Cardinality({j \in heads :
                                        \/ implementationBefore(row(j), row(i))
                                        \/ ~implementationBefore(row(i), row(j)) /\ j < i})
    IN  [k \in 1..Cardinality(heads) |-> row(CHOOSE i \in heads : rank(i) = k)]

\* lines 36-75: without the eu_references table the probe throws and the
\* result is empty with a note
getUAEImplementations(db, et, input) ==
    IF ~et.present
    THEN Response(<<>>, "EU/international references not available in this database tier")
    ELSE Response(implementationResults(db, et, implementationRows(db, et, input)), Null)

-----------------------------------------------------------------------------
(* list_sources (list-sources.ts) and about (about.ts) *)

\* the three sources as list_sources names them
SourceInfo(name, authority, url, coverage, languages, legal_zone) ==
    [name |-> name, authority |-> authority, url |-> url, license |-> "Government Open Data",
     coverage |-> coverage, languages |-> languages, legal_zone |-> legal_zone]

\* safeCount over legal_documents and legal_provisions; tier, schema_version
\* and built_at come from db_metadata, a table outside the model
listSources(db, pt) ==
    Response(
        [sources |->
            <<SourceInfo("UAE Ministry of Justice (Official Legislation Portal)",
                         "Ministry of Justice, United Arab Emirates", "https://moj.gov.ae",
                         "Federal Decree-Laws, Federal Laws, Cabinet Decisions, and ministerial resolutions including "
                         \o "PDPL (45/2021), Cybercrimes Law (34/2021), Electronic Transactions Law (46/2021), "
                         \o "Commercial Companies Law (2/2015), and related implementing regulations",
                         <<"ar", "en">>, "federal"),
              SourceInfo("DIFC Laws and Regulations", "Dubai International Financial Centre (DIFC)",
                         "https://difclaws.com",
                         "DIFC Data Protection Law (Law No. 5/2020), DIFC Operating Law, DIFC Companies Law, "
                         \o "DIFC Employment Law, DIFC Insolvency Law, DIFC Arbitration Law, and all DIFC regulations and rules of court",
                         <<"en">>, "difc"),
              SourceInfo("ADGM Legal Framework", "Abu Dhabi Global Market (ADGM)",
                         "https://adgm.com/legal-framework",
                         "ADGM Data Protection Regulations 2021, ADGM Companies Regulations, "
                         \o "ADGM Financial Services regulations, ADGM Employment Regulations, and all ADGM guidance and rules",
                         <<"en">>, "adgm")>>,
         database |-> [document_count |-> Len(db), provision_count |-> Len(pt)]],
        Null)

\* the registry was built without an AboutContext
NoContext == [present |-> FALSE, version |-> "", fingerprint |-> "", dbBuilt |-> ""]

AboutContext(version, fingerprint, dbBuilt) ==
    [present |-> TRUE, version |-> version, fingerprint |-> fingerprint, dbBuilt |-> dbBuilt]

\* an entry of data_sources
DataSource(name, authority, url, jurisdiction, languages, legal_zone) ==
    [name |-> name, authority |-> authority, url |-> url, license |-> "Government Open Data",
     jurisdiction |-> jurisdiction, languages |-> languages, legal_zone |-> legal_zone]

\* the object getAbout returns: the counts are safeCount over the tables
\* (0 for a table that does not exist); server, repository, tier,
\* schema_version and capabilities come from modules outside the model, as do
\* the counts of the definitions and eu_documents tables
getAbout(db, pt, et, context) ==
    [version |-> context.version,
     jurisdiction |-> "United Arab Emirates (AE)",
     database |-> [fingerprint |-> context.fingerprint, built_at |-> context.dbBuilt],
     statistics |-> [documents |-> Len(db), provisions |-> Len(pt),
                     eu_references |-> IF et.present THEN Len(et.rows) ELSE 0],
     data_sources |->
        <<DataSource("UAE Ministry of Justice", "Ministry of Justice, United Arab Emirates",
                     "https://moj.gov.ae", "AE (Federal)", <<"ar", "en">>, "federal"),
          DataSource("DIFC Laws and Regulations", "Dubai International Financial Centre (DIFC)",
                     "https://difclaws.com", "AE-DU (DIFC)", <<"en">>, "difc"),
          DataSource("ADGM Legal Framework", "Abu Dhabi Global Market (ADGM)",
                     "https://adgm.com/legal-framework", "AE-AZ (ADGM)", <<"en">>, "adgm")>>]

\* what the request handler answers instead of a tool's result
ToolError(text) == [isError |-> TRUE, text |-> text]

\* case 'about' of the dispatch
aboutCase(db, pt, et, context) ==
    IF context.present THEN getAbout(db, pt, et, context)
    ELSE ToolError("About tool not configured.")

-----------------------------------------------------------------------------
(* format_citation (format-citation.ts) *)

\* a match of one of the four patterns: the number and the law text as matched
NoParts == [matched |-> FALSE, article |-> "", law |-> ""]

Parts(article, law) == [matched |-> TRUE, article |-> article, law |-> law]

\* /^(?:Article|Art\.?|@)\s*(\d+[A-Za-z]*)\s*[,;]?\s+(.+)$/i: group 2 starts
\* after the white space and ends where the trimmed input ends
formatArtFirst(s) ==
    LET m == PrefixForm(s, <<"article", "art.", "art", ArArticle>>)
    IN  IF m.matched THEN Parts(m.articleRef, m.documentRef) ELSE NoParts

\* ^(.+?)[,;]<SuffixTail>: group 1 as matched, white space before the
\* separator included
SuffixGroups(s, alts) ==
    LET C == {i \in 1..(Len(s) - 1) :
                /\ At(s, i + 1) \in {",", ";"}
                /\ ~HasLineTerminator(SubSeq(s, 1, i))
                /\ SuffixTail(s, i + 2, alts) # ""}
    IN  IF C = {} THEN NoParts
        ELSE Parts(SuffixTail(s, Min(C) + 2, alts), SubSeq(s, 1, Min(C)))

\* /^(.+?)[,;]\s*(?:Article|Art\.?|@)\s*(\d+[A-Za-z]*)$/i
formatArtLast(s) == SuffixGroups(s, <<"article", "art.", "art", ArArticle>>)

\* /^(?:Section|s\.?)\s*(\d+[A-Za-z]*)\s*[,;]?\s+(.+)$/i
formatSecFirst(s) ==
    LET m == PrefixForm(s, <<"section", "s.", "s">>)
    IN  IF m.matched THEN Parts(m.articleRef, m.documentRef) ELSE NoParts

\* /^(.+?)[,;]\s*(?:Section|s\.?)\s*(\d+[A-Za-z]*)$/i
formatSecLast(s) == SuffixGroups(s, <<"section", "s.", "s">>)

\* article and law: the groups of the first of artFirst, artLast, secFirst,
\* secLast that matched; without a match no article, and law = trimmed
formatParts(trimmed) ==
    IF formatArtFirst(trimmed).matched THEN formatArtFirst(trimmed)
    ELSE IF formatArtLast(trimmed).matched THEN formatArtLast(trimmed)
    ELSE IF formatSecFirst(trimmed).matched THEN formatSecFirst(trimmed)
    ELSE IF formatSecLast(trimmed).matched THEN formatSecLast(trimmed)
    ELSE [matched |-> FALSE, article |-> "", law |-> trimmed]

\* \w
WordChars == Letters \cup Digits \cup {"_"}

\* \b before position i of s
WordBoundary(s, i) ==
    (i > 1 /\ i - 1 <= Len(s) /\ At(s, i - 1) \in WordChars) # (i <= Len(s) /\ At(s, i) \in WordChars)

\* mutant: the zone tokens in upper case only
isDifcAdgm_upperCase(law) ==
    \E i \in 1..(Len(law) - 3) :
        /\ StartsAt(law, i, "DIFC") \/ StartsAt(law, i, "ADGM")
        /\ WordBoundary(law, i)
        /\ WordBoundary(law, i + 4)

\* /\b(?:DIFC|ADGM)\b/i.test(law)
isDifcAdgm(law) ==
    \E i \in 1..(Len(law) - 3) :
        /\ StartsAtCI(law, i, "difc") \/ StartsAtCI(law, i, "adgm")
        /\ WordBoundary(law, i)
        /\ WordBoundary(law, i + 4)

\* mutant: the law text of the short format left whole
shortLaw_whole(law) == Trim(law)

\* law.split('(')[0].trim()
shortLaw(law) ==
    LET P == {i \in 1..Len(law) : At(law, i) = "("}
    IN  Trim(IF P = {} THEN law ELSE SubSeq(law, 1, Min(P) - 1))

FormatCitationResult(original, formatted, format) ==
    [original |-> original, formatted |-> formatted, format |-> format]

\* the switch on format, the article being present
formatted(format, article, law) ==
    LET provisionWord == IF isDifcAdgm(law) THEN "Section" ELSE "Article"
        provisionAbbrev == IF isDifcAdgm(law) THEN "s" ELSE "Art."
    IN  IF format = "short" THEN provisionAbbrev \o " " \o article \o ", " \o shortLaw(law)
        ELSE IF format = "pinpoint" THEN provisionAbbrev \o " " \o article
        ELSE provisionWord \o " " \o article \o ", " \o law

\* input.format is Null when the caller leaves it out
formatCitationTool(input) ==
    LET format == Coalesce(input.format, "full")
        parts == formatParts(Trim(input.citation))
    IN  FormatCitationResult(input.citation,
                             IF parts.article # "" THEN formatted(format, parts.article, parts.law)
                             ELSE parts.law,
                             format)

-----------------------------------------------------------------------------
(* Specification SpecParse: parseCitation applied to one citation *)

PrefixWords == {"Article", "Art.", "art", "Section", "s.", "S", ArArticle}

SuffixWords == {"Article", "art.", "Section", "s"}

Gaps == {"", " "}

Numbers == {"2", "5A"}

PrefixSeparators == {",", ", ", " ", " ,", ""}

SuffixSeparators == {",", ", ", " ;", " "}

LawTexts == {"PDPL", "fdl-1-2020", "Law, Art. 3", "X; s 4", ArMin \o " PDPL"}

Citations ==
    {w \o g \o n \o p \o l : w \in PrefixWords, g \in Gaps, n \in Numbers, p \in PrefixSeparators, l \in LawTexts}
    \cup {l \o p \o w \o g \o n : l \in LawTexts, p \in SuffixSeparators, w \in SuffixWords, g \in Gaps, n \in Numbers}
    \cup LawTexts
    \cup {" PDPL ", "s 5 Law, Art. 2"}

InitParse ==
    /\ docs = <<>>
    /\ provs = <<>>
    /\ eu = NoEuTable
    /\ NoCall
    /\ NoIngestion
    /\ fin \in Citations
    /\ fout = NoMatch
    /\ fpc = "start"

ParseCitationCall ==
    /\ fpc = "start"
    /\ fout' = parseCitation(fin)
    /\ fpc' = "done"
    /\ UNCHANGED <<docs, provs, eu, tool, arg, res, fin>>
    /\ UNCHANGED ingestVars

NextParse == ParseCitationCall

SpecParse == InitParse /\ [][NextParse]_vars

\* the six patterns in the order of the specification
Patterns(t) == <<arabicMatch(t), artFirst(t), secFirst(t), artLast(t), secLast(t), idBased(t)>>

\* C2: the result of parseCitation is the capture of the first pattern, in the
\* order Arabic, Article prefix, Section prefix, Article suffix, Section
\* suffix, id-based, that matches the trimmed citation, also when a later
\* pattern matches too; with no matching pattern it is the trimmed citation
\* with no article reference.
C2_FirstPatternWins ==
    fpc = "done" =>
        LET t == Trim(fin)
            H == {k \in 1..6 : Patterns(t)[k].matched}
        IN  /\ H = {} => fout = [matched |-> TRUE, documentRef |-> t, articleRef |-> ""]
            /\ H # {} => fout = Patterns(t)[Min(H)]
            /\ fin = "s 5 Law, Art. 2" => fout.documentRef = "Law, Art. 2" /\ fout.articleRef = "5"

\* a parsed citation that is both a Section-prefix and an Article-suffix
\* citation, the two patterns capturing different references
C2_Witness ==
    /\ fpc = "done"
    /\ secFirst(Trim(fin)).matched
    /\ artLast(Trim(fin)).matched
    /\ secFirst(Trim(fin)) # artLast(Trim(fin))
    /\ fout = secFirst(Trim(fin))

-----------------------------------------------------------------------------
(* Specification Spec: tool calls against a database *)

\* rows of legal_documents and of legal_provisions in SpecResolve and
\* SpecValidate, where the order of the rows decides
MaxDocs == 2

MaxProvs == 2

\* rows of legal_documents and of legal_provisions in Spec
MaxToolDocs == 1

MaxToolProvs == 1

Doc(id, title, titleEn, shortName, status, zone) ==
    [id |-> id, title |-> title, title_en |-> titleEn, short_name |-> shortName, status |-> status,
     issued_date |-> "2020-01-01", in_force_date |-> Null, url |-> Null, legal_zone |-> zone]

\* documents a database may hold; the id of the first is part of the title
\* of the second, and three of them share number and year
DocUniverse ==
    {Doc("fdl-1-2020", "Data Law", "Data Law", "PDPL", "in_force", "federal"),
     Doc("fl-1-2020", "Act on fdl-1-2020", Null, "AML", "amended", "federal"),
     Doc("cd-1-2020", "the DATA act", "the DATA act", Null, "repealed", Null),
     Doc("difc-law-5-2020", "DIFC data rules", "DIFC data rules", "DIFC DPL", "repealed", "difc"),
     Doc("adgm-dpr-2021", "ADGM Regs 2021", "ADGM Regs 2021", "ADGM DPR", "not_yet_in_force", "adgm")}

Prov(id, docId, ref, section) ==
    [id |-> id, document_id |-> docId, provision_ref |-> ref, chapter |-> Null, section |-> section,
     title |-> Null, content |-> "Text of " \o ref, language |-> "en"]

ProvUniverse ==
    {Prov(1, "fdl-1-2020", "art2", "2"),
     Prov(2, "fdl-1-2020", "s2", "2"),
     Prov(3, "fdl-1-2020", "2", "II"),
     Prov(4, "fdl-1-2020", "art12", "12"),
     Prov(5, "cd-1-2020", "art5A", "5A"),
     Prov(6, "difc-law-5-2020", "art2", "2"),
     Prov(7, "adgm-dpr-2021", "s2", "2")}

EuRef(docId, euId, st, referenceType, primary) ==
    [document_id |-> docId, eu_document_id |-> euId, implementation_status |-> st,
     reference_type |-> referenceType, is_primary_implementation |-> primary]

EuUniverse ==
    <<EuRef("fdl-1-2020", "gdpr", "complete", "aligns_with", 1),
      EuRef("fdl-1-2020", "eidas", "partial", "references", 0),
      EuRef("difc-law-5-2020", "gdpr", "unknown", "aligns_with", 0)>>

\* the sequences without repetition of at most n elements of U
Arrangements(U, n) ==
    UNION {{q \in [1..k -> U] : \A i, j \in 1..k : i # j => q[i] # q[j]} : k \in 0..n}

Ids(db) == {db[i].id : i \in 1..Len(db)}

\* the rows of EuUniverse at the positions in S, from position k on
RECURSIVE EuRows(_, _)
EuRows(S, k) ==
    IF k > Len(EuUniverse) THEN <<>>
    ELSE (IF k \in S THEN <<EuUniverse[k]>> ELSE <<>>) \o EuRows(S, k + 1)

\* legal_documents with at most n rows: id is the primary key
DocTablesOf(n) == Arrangements(DocUniverse, n)

DocTables == DocTablesOf(MaxDocs)

\* legal_provisions with at most n rows: every row belongs to a document of
\* the database
ProvTablesOf(db, n) == Arrangements({p \in ProvUniverse : p.document_id \in Ids(db)}, n)

ProvTables(db) == ProvTablesOf(db, MaxProvs)

\* eu_references: missing in the free tier, else the references of the
\* documents of the database
EuTables(db) ==
    {NoEuTable,
     [present |-> TRUE,
      rows |-> EuRows({k \in 1..Len(EuUniverse) : EuUniverse[k].document_id \in Ids(db)}, 1)]}

ResolverInputs ==
    {"fdl-1-2020", " fdl-1-2020 ", "pdpl", "1/2020", "No. 1 / 2020", "Data", "DATA", "data",
     "d_ta", "", "  ", "Nonexistent Law 9999", "ADGM"}

CitationInputs ==
    {"Article 2, PDPL", "fdl-1-2020, art. 2", "Art. 2, Act", "s 2, DIFC DPL", "Section 2, ADGM DPR",
     "Article 5A, cd-1-2020", "Article 9, fdl-1-2020", "Art. 2, Nonexistent Law 9999",
     ArArticle \o " 2 " \o ArMin \o " Data Law", "Data", "II, fdl-1-2020", "???"}

CurrencyInputs == {"pdpl", "DATA", "Nonexistent Law 9999", " "}

ProvisionInputs ==
    {[document_id |-> d, article |-> a, provision_ref |-> Null, section |-> Null] :
        d \in {"fdl-1-2020", "Nonexistent Law 9999"}, a \in {"2", " 12 ", "1", "II", Null}}
    \cup {[document_id |-> "DATA", article |-> Null, provision_ref |-> r, section |-> "9"] : r \in {"s2", Null}}
    \cup {[document_id |-> "pdpl", article |-> "", provision_ref |-> "s2", section |-> Null]}

ComplianceInputs ==
    {[document_id |-> d, eu_document_id |-> e] :
        d \in {"pdpl", "DIFC DPL", "Nonexistent Law 9999"}, e \in {Null, "gdpr"}}

Init ==
    /\ docs \in DocTablesOf(MaxToolDocs)
    /\ provs \in ProvTablesOf(docs, MaxToolProvs)
    /\ eu \in EuTables(docs)
    /\ NoCall
    /\ NoIngestion
    /\ Idle

\* a caller resolves a reference
ResolveCall ==
    /\ tool = "none"
    /\ \E input \in ResolverInputs :
        /\ tool' = "resolve_document_id"
        /\ arg' = input
        /\ res' = resolveDocumentId(docs, input)
    /\ UNCHANGED <<docs, provs, eu, fin, fout, fpc>>
    /\ UNCHANGED ingestVars

ValidateCitationCall ==
    /\ tool = "none"
    /\ \E citation \in CitationInputs :
        /\ tool' = "validate_citation"
        /\ arg' = citation
        /\ res' = validateCitationTool(docs, provs, citation)
    /\ UNCHANGED <<docs, provs, eu, fin, fout, fpc>>
    /\ UNCHANGED ingestVars

CheckCurrencyCall ==
    /\ tool = "none"
    /\ \E input \in CurrencyInputs :
        /\ tool' = "check_currency"
        /\ arg' = input
        /\ res' = checkCurrency(docs, input)
    /\ UNCHANGED <<docs, provs, eu, fin, fout, fpc>>
    /\ UNCHANGED ingestVars

GetProvisionCall ==
    /\ tool = "none"
    /\ \E input \in ProvisionInputs :
        /\ tool' = "get_provision"
        /\ arg' = input
        /\ res' = getProvision(docs, provs, input)
    /\ UNCHANGED <<docs, provs, eu, fin, fout, fpc>>
    /\ UNCHANGED ingestVars

ValidateEUComplianceCall ==
    /\ tool = "none"
    /\ \E input \in ComplianceInputs :
        /\ tool' = "validate_eu_compliance"
        /\ arg' = input
        /\ res' = validateEUCompliance(docs, eu, input)
    /\ UNCHANGED <<docs, provs, eu, fin, fout, fpc>>
    /\ UNCHANGED ingestVars

FormatCallInputs ==
    {[citation |-> "Article 2, Federal Decree-Law No. 45 of 2021", format |-> Null],
     [citation |-> "s 5A, DIFC Law No. 5 of 2020 (Data Protection)", format |-> "short"],
     [citation |-> "  ", format |-> "pinpoint"]}

AboutContexts == {NoContext, AboutContext("1.0.0", "0f3a9c", "2025-01-01T00:00:00Z")}

\* case 'format_citation' of the dispatch
FormatCitationCall ==
    /\ tool = "none"
    /\ \E input \in FormatCallInputs :
        /\ tool' = "format_citation"
        /\ arg' = input
        /\ res' = formatCitationTool(input)
    /\ UNCHANGED <<docs, provs, eu, fin, fout, fpc>>
    /\ UNCHANGED ingestVars

\* case 'list_sources' of the dispatch
ListSourcesCall ==
    /\ tool = "none"
    /\ tool' = "list_sources"
    /\ arg' = Null
    /\ res' = listSources(docs, provs)
    /\ UNCHANGED <<docs, provs, eu, fin, fout, fpc>>
    /\ UNCHANGED ingestVars

\* case 'about' of the dispatch, in a server registered with or without a
\* context
AboutCall ==
    /\ tool = "none"
    /\ \E context \in AboutContexts :
        /\ tool' = "about"
        /\ arg' = context
        /\ res' = aboutCase(docs, provs, eu, context)
    /\ UNCHANGED <<docs, provs, eu, fin, fout, fpc>>
    /\ UNCHANGED ingestVars

ImplementationInputs ==
    {[eu_document_id |-> "gdpr", primary_only |-> FALSE, in_force_only |-> FALSE],
     [eu_document_id |-> "gdpr", primary_only |-> TRUE, in_force_only |-> FALSE],
     [eu_document_id |-> "gdpr", primary_only |-> FALSE, in_force_only |-> TRUE],
     [eu_document_id |-> "nis2", primary_only |-> FALSE, in_force_only |-> FALSE]}

\* a variant of the call below whose probe creates the table it looks for
GetUAEImplementationsCall_createsTable ==
    /\ tool = "none"
    /\ \E input \in ImplementationInputs :
        /\ tool' = "get_uae_implementations"
        /\ arg' = input
        /\ res' = getUAEImplementations(docs, eu, input)
    /\ eu' = [present |-> TRUE, rows |-> eu.rows]
    /\ UNCHANGED <<docs, provs, fin, fout, fpc>>
    /\ UNCHANGED ingestVars

\* case 'get_uae_implementations' of the dispatch
GetUAEImplementationsCall ==
    /\ tool = "none"
    /\ \E input \in ImplementationInputs :
        /\ tool' = "get_uae_implementations"
        /\ arg' = input
        /\ res' = getUAEImplementations(docs, eu, input)
    /\ UNCHANGED <<docs, provs, eu, fin, fout, fpc>>
    /\ UNCHANGED ingestVars

\* the caller takes the response; the server is ready for the next call
Return ==
    /\ tool # "none"
    /\ tool' = "none"
    /\ arg' = Null
    /\ res' = Null
    /\ UNCHANGED <<docs, provs, eu, fin, fout, fpc>>
    /\ UNCHANGED ingestVars

Next ==
    \/ ResolveCall
    \/ ValidateCitationCall
    \/ CheckCurrencyCall
    \/ GetProvisionCall
    \/ ValidateEUComplianceCall
    \/ FormatCitationCall
    \/ ListSourcesCall
    \/ AboutCall
    \/ GetUAEImplementationsCall
    \/ Return

Spec == Init /\ [][Next]_vars

\* the document reference the last tool call handed to resolveDocumentId
ResolvedReference ==
    CASE tool = "validate_citation" -> parseCitation(arg).documentRef
      [] tool = "check_currency" -> arg
      [] tool = "get_provision" -> arg.document_id
      [] tool = "validate_eu_compliance" -> arg.document_id
      [] OTHER -> Null

\* C6: a tool call whose document reference resolves to no document returns
\* without an exception: validate_citation with valid = false and the one
\* warning 'Document not found: "<reference>"', check_currency with status
\* not_found and validate_eu_compliance with not_applicable, each with one
\* warning that names the input, get_provision with no result and a note
\* that names the input.
C6_NotFoundIsAResult ==
    (/\ tool \in {"validate_citation", "check_currency", "get_provision", "validate_eu_compliance"}
     /\ resolveDocumentId(docs, ResolvedReference) = Null) =>
        /\ ~res.threw
        /\ tool = "validate_citation" =>
            /\ res.results.valid = FALSE
            /\ res.results.warnings = <<"Document not found: \"" \o ResolvedReference \o "\"">>
        /\ tool = "check_currency" =>
            /\ res.results.status = "not_found"
            /\ Len(res.results.warnings) = 1
            /\ Contains(res.results.warnings[1], "\"" \o arg \o "\"")
        /\ tool = "validate_eu_compliance" =>
            /\ res.results.compliance_status = "not_applicable"
            /\ Len(res.results.warnings) = 1
            /\ Contains(res.results.warnings[1], "\"" \o arg.document_id \o "\"")
        /\ tool = "get_provision" =>
            /\ res.results = <<>>
            /\ res.metadata.note # Null
            /\ Contains(res.metadata.note, "\"" \o arg.document_id \o "\"")

\* check_currency answered not_found for a reference that no stage resolves
\* in a database that holds documents
C6_Witness ==
    /\ tool = "check_currency"
    /\ arg = "Nonexistent Law 9999"
    /\ Len(docs) > 0
    /\ ~res.threw
    /\ res.results.status = "not_found"
    /\ res.results.warnings = <<"Document not found: \"Nonexistent Law 9999\"">>

\* the tools of the dispatch that the model holds
RegistryTools ==
    {"get_provision", "validate_citation", "format_citation", "check_currency",
     "validate_eu_compliance", "get_uae_implementations", "list_sources", "about"}

\* the call produced a result: no exception, no error answer
Succeeded(r) ==
    /\ ~("isError" \in DOMAIN r)
    /\ ~("threw" \in DOMAIN r /\ r.threw)

\* C20: whenever a tool of the registry returns a result, the result is a
\* ToolResponse: it has the fields results and _metadata, and _metadata has
\* data_source, jurisdiction and disclaimer; format_citation and about
\* included.
C20_ToolResponseShape ==
    (tool \in RegistryTools /\ Succeeded(res)) =>
        /\ {"results", "metadata"} \subseteq DOMAIN res
        /\ {"data_source", "jurisdiction", "disclaimer"} \subseteq DOMAIN res.metadata

\* C21: no step of the server changes a table: after any sequence of tool
\* calls legal_documents, legal_provisions and eu_references hold what they
\* held before.
C21_ReadOnly == [][docs' = docs /\ provs' = provs /\ eu' = eu]_vars

\* get_uae_implementations answered with the law aligned with the GDPR, read
\* from tables that hold a document, a provision and references
C21_Witness ==
    /\ tool = "get_uae_implementations"
    /\ Len(docs) > 0 /\ Len(provs) > 0 /\ Len(eu.rows) > 0
    /\ Len(res.results) = 1
    /\ res.results[1].document_id = "fdl-1-2020"
    /\ res.results[1].implementation_status = "complete"
    /\ res.results[1].is_primary = 1
    /\ res.results[1].reference_count = 1

\* C29: resolveDocumentId returns null or the id of a row of legal_documents,
\* and resolving the id it returned gives that id again; so the reads of the
\* document row in check_currency, validate_citation and
\* validate_eu_compliance, made without a guard once the id resolved, find
\* the row.
C29_ResolvedRowExists ==
    /\ tool = "resolve_document_id" =>
           \/ res = Null
           \/ /\ res \in Ids(docs)
              /\ resolveDocumentId(docs, res) = res
    /\ tool \in {"check_currency", "validate_citation", "validate_eu_compliance"} => ~res.threw

\* check_currency resolved "DATA" through the title and read the row
C29_Witness ==
    /\ tool = "check_currency"
    /\ arg = "DATA"
    /\ ~res.threw
    /\ res.results.document_id \in Ids(docs)
    /\ res.results.document_id = resolveDocumentId(docs, "DATA")
    /\ res.results.document_id # "DATA"

\* the eu_references table with the implementation_status of row k replaced
WithImplementationStatus(et, k, st) ==
    [et EXCEPT !.rows = [et.rows EXCEPT ![k] = [et.rows[k] EXCEPT !.implementation_status = st]]]

\* C30: when validate_eu_compliance is called with an eu_document_id, its
\* compliance_status depends on the references to that EU document only:
\* another implementation_status on a reference to a different EU document
\* leaves it as it is.
C30_OnlyTheRequestedEuDocument ==
    (tool = "validate_eu_compliance" /\ Truthy(arg.eu_document_id) /\ eu.present) =>
        \A k \in 1..Len(eu.rows) : \A st \in {"complete", "partial", "unknown"} :
            eu.rows[k].eu_document_id # arg.eu_document_id =>
                validateEUCompliance(docs, WithImplementationStatus(eu, k, st), arg).results.compliance_status
                    = res.results.compliance_status

-----------------------------------------------------------------------------
(* Specification SpecResolve: resolveDocumentId against a table of documents *)

InitResolve ==
    /\ docs \in DocTables
    /\ provs = <<>>
    /\ eu = NoEuTable
    /\ NoCall
    /\ NoIngestion
    /\ Idle

NextResolve == ResolveCall \/ Return

SpecResolve == InitResolve /\ [][NextResolve]_vars

\* the row each stage of the cascade finds for the trimmed input t (0: none)
Stages(db, t) ==
    <<directMatch(db, t), shortNameMatch(db, t), fdlId(db, t), titleResult(db, t), lowerResult(db, t)>>

\* document d holds the text t, letter case included, in its title, short
\* name or English title
HoldsExactly(d, t) ==
    \/ Contains(d.title, t)
    \/ d.short_name # Null /\ Contains(d.short_name, t)
    \/ d.title_en # Null /\ Contains(d.title_en, t)

\* C1: resolveDocumentId returns the row found by the first stage, in the
\* order exact id, short name, number/year probe, substring, case-insensitive
\* substring, that finds one, and null when the input is blank or no stage
\* finds a row; an input that is the id of a document resolves to that
\* document whatever other documents hold the id in a title and wherever they
\* stand in the table.
C1_CascadeOrder ==
    tool = "resolve_document_id" =>
        LET t == Trim(arg)
            H == {k \in 1..5 : Stages(docs, t)[k] # 0}
        IN  /\ (t = "" \/ H = {}) => res = Null
            /\ (t # "" /\ H # {}) => res = docs[Stages(docs, t)[Min(H)]].id
            /\ (t # "" /\ t \in Ids(docs)) => res = t

\* the input is the id of one document and part of the title of another one
\* that stands before it in the table, and the call returned the first
C1_Witness ==
    /\ tool = "resolve_document_id"
    /\ \E i, j \in 1..Len(docs) :
        /\ j < i
        /\ docs[i].id = Trim(arg)
        /\ Contains(docs[j].title, Trim(arg))
        /\ res = docs[i].id

\* C7 as claimed: when the number/year stage is reached and finds a document,
\* the result is fdl-{n}-{y} if it exists, otherwise fl-{n}-{y}, otherwise
\* cd-{n}-{y}, whatever the order of the rows.
C7_FixedProbeOrder ==
    (/\ tool = "resolve_document_id"
     /\ Trim(arg) # ""
     /\ directMatch(docs, Trim(arg)) = 0
     /\ shortNameMatch(docs, Trim(arg)) = 0
     /\ fdlPattern(Trim(arg)).matched) =>
        LET m   == fdlPattern(Trim(arg))
            fdl == "fdl-" \o m.num \o "-" \o m.year
            fl  == "fl-" \o m.num \o "-" \o m.year
            cd  == "cd-" \o m.num \o "-" \o m.year
        IN  IF fdl \in Ids(docs) THEN res = fdl
            ELSE IF fl \in Ids(docs) THEN res = fl
            ELSE IF cd \in Ids(docs) THEN res = cd
            ELSE TRUE

\* C8 as claimed: when the first three stages find nothing and some document
\* holds the trimmed input with identical letter case, the result is such a
\* document, also when a document that holds the input only in another letter
\* case stands before it.
C8_ExactCaseFirst ==
    (/\ tool = "resolve_document_id"
     /\ Trim(arg) # ""
     /\ directMatch(docs, Trim(arg)) = 0
     /\ shortNameMatch(docs, Trim(arg)) = 0
     /\ fdlId(docs, Trim(arg)) = 0
     /\ \E i \in 1..Len(docs) : HoldsExactly(docs[i], Trim(arg))) =>
        \E i \in 1..Len(docs) : docs[i].id = res /\ HoldsExactly(docs[i], Trim(arg))

-----------------------------------------------------------------------------
(* Specification SpecValidate: validate_citation against documents and provisions *)

InitValidate ==
    /\ docs \in DocTables
    /\ provs \in ProvTables(docs)
    /\ eu = NoEuTable
    /\ NoCall
    /\ NoIngestion
    /\ Idle

NextValidate == ValidateCitationCall \/ Return

SpecValidate == InitValidate /\ [][NextValidate]_vars

Statuses == {"in_force", "amended", "repealed", "not_yet_in_force"}

\* the document of table db with the given id (the id is known to be present)
DocOf(db, id) == db[CHOOSE i \in 1..Len(db) : db[i].id = id]

\* the table db with the status of document id replaced by st
WithStatus(db, id, st) ==
    [i \in 1..Len(db) |-> IF db[i].id = id THEN [db[i] EXCEPT !.status = st] ELSE db[i]]

\* the provision_ref values of the rows of document id that rule k of the
\* lookup accepts for reference r
RuleRefs(pt, id, r, k) ==
    {pt[i].provision_ref : i \in {j \in 1..Len(pt) :
        /\ pt[j].document_id = id
        /\ CASE k = 1 -> pt[j].provision_ref = r
             [] k = 2 -> pt[j].provision_ref = "art" \o r
             [] k = 3 -> pt[j].provision_ref = "s" \o r
             [] k = 4 -> pt[j].section = r}}

\* validate_citation answered, for a citation with an article reference,
\* that the citation is valid
ValidWithArticle ==
    /\ tool = "validate_citation"
    /\ ~res.threw
    /\ res.results.valid
    /\ res.results.provision_ref # Null

\* C3 as claimed: the provision_ref validate_citation reports is one accepted
\* by the earliest of the rules provision_ref = r, provision_ref = art+r,
\* provision_ref = s+r, section = r that accepts any row of the document,
\* whatever the order of the rows.
C3_EarliestRuleWins ==
    ValidWithArticle =>
        LET r == parseCitation(arg).articleRef
            id == res.results.document_id
            H == {k \in 1..4 : RuleRefs(provs, id, r, k) # {}}
        IN  H # {} /\ res.results.provision_ref \in RuleRefs(provs, id, r, Min(H))

C5_StatusIndependence ==
    (tool = "validate_citation" /\ ~res.threw /\ res.results.document_id # Null) =>
        \A base \in {validateCitationTool(WithStatus(docs, res.results.document_id, "in_force"), provs, arg)} :
        \A st \in Statuses :
        \A other \in {validateCitationTool(WithStatus(docs, res.results.document_id, st), provs, arg)} :
            /\ ~other.threw
            /\ other.results.valid = res.results.valid
            /\ other.results.document_id = res.results.document_id
            /\ other.results.provision_ref = res.results.provision_ref
            /\ Len(other.results.warnings) =
                   Len(base.results.warnings) + (IF st \in {"repealed", "amended"} THEN 1 ELSE 0)

\* a valid citation of a provision of a repealed law, with its one warning
C5_Witness ==
    /\ ValidWithArticle
    /\ DocOf(docs, res.results.document_id).status = "repealed"
    /\ Len(res.results.warnings) = 1

\* C19: a citation that has none of the citation shapes is answered, without
\* an exception, by valid = false with the one warning "Could not parse
\* citation format".
C19_CouldNotParse ==
    (tool = "validate_citation" /\ arg = "???") =>
        /\ ~res.threw
        /\ res.results.valid = FALSE
        /\ res.results.warnings = <<"Could not parse citation format">>

-----------------------------------------------------------------------------
(* Specification SpecExtract: the three HTML parsers applied to one page *)

MaxSegments == 3

\* pieces of a page: numbered items whose stripped contents have 6, 7 and 7
\* characters
Segments ==
    {"Article 3 abcdefg ", "Section 3 abcdefg ", "Section 2 abcdef ", "Section 2 abcdefg "}
        \cup {"Article 2 " \o b \o " " : b \in {"abcdef", "abcdefg", "<b>uv</b>wxyz"}}

RECURSIVE PagesOf(_)
PagesOf(n) == IF n = 0 THEN {""} ELSE {g \o p : g \in Segments, p \in PagesOf(n - 1)}

Pages == UNION {PagesOf(n) : n \in 1..MaxSegments}

NoDocument == [legal_zone |-> Null, language |-> Null, provisions |-> <<>>]

InitExtract ==
    /\ docs = <<>>
    /\ provs = <<>>
    /\ eu = NoEuTable
    /\ NoCall
    /\ NoIngestion
    /\ fin \in Pages
    /\ fout = NoDocument
    /\ fpc = "start"

ParseFederalLawHtmlCall ==
    /\ fpc = "start"
    /\ fout' = parseFederalLawHtml(fin)
    /\ fpc' = "federal"
    /\ UNCHANGED <<docs, provs, eu, tool, arg, res, fin>>
    /\ UNCHANGED ingestVars

ParseDifcLawHtmlCall ==
    /\ fpc = "start"
    /\ fout' = parseDifcLawHtml(fin)
    /\ fpc' = "difc"
    /\ UNCHANGED <<docs, provs, eu, tool, arg, res, fin>>
    /\ UNCHANGED ingestVars

ParseAdgmRegulationHtmlCall ==
    /\ fpc = "start"
    /\ fout' = parseAdgmRegulationHtml(fin)
    /\ fpc' = "adgm"
    /\ UNCHANGED <<docs, provs, eu, tool, arg, res, fin>>
    /\ UNCHANGED ingestVars

NextExtract == ParseFederalLawHtmlCall \/ ParseDifcLawHtmlCall \/ ParseAdgmRegulationHtmlCall

SpecExtract == InitExtract /\ [][NextExtract]_vars

\* everything the parser that ran pushed to provisions, in extraction order
Extracted ==
    IF fpc = "federal" THEN federalProvisions(fin)
    ELSE IF fpc = "difc" THEN difcProvisions(fin)
    ELSE IF fpc = "adgm" THEN adgmProvisions(fin)
    ELSE <<>>

\* C9: in the output of each parser no two provisions share a provision_ref;
\* every extracted provision_ref is kept; and the provision kept for a ref is
\* the extracted one with the longest content, the earliest extracted of
\* those when several have the maximal length.
C9_LongestEarliestKept ==
    LET all == Extracted
        out == fout.provisions
    IN  /\ \A i, j \in 1..Len(out) : i # j => out[i].provision_ref # out[j].provision_ref
        /\ \A k \in 1..Len(all) : \E i \in 1..Len(out) : out[i].provision_ref = all[k].provision_ref
        /\ \A i \in 1..Len(out) : \E k \in 1..Len(all) :
              /\ all[k] = out[i]
              /\ \A m \in 1..Len(all) :
                    all[m].provision_ref = out[i].provision_ref =>
                        \/ Len(all[m].content) < Len(all[k].content)
                        \/ Len(all[m].content) = Len(all[k].content) /\ k <= m

\* a parser met three provisions with one ref, the last two of the maximal
\* length and different, and kept the second
C9_Witness ==
    LET all == Extracted
        out == fout.provisions
    IN  /\ Len(all) = 3 /\ Len(out) = 1
        /\ all[1].provision_ref = all[2].provision_ref /\ all[2].provision_ref = all[3].provision_ref
        /\ Len(all[1].content) < Len(all[2].content)
        /\ Len(all[2].content) = Len(all[3].content)
        /\ all[2] # all[3]
        /\ out[1] = all[2]

\* the pattern with which the parser that ran looks for markers
MarkerForm ==
    IF fpc = "federal" THEN [words |-> {"Article"}, ci |-> FALSE, parens |-> TRUE]
    ELSE IF fpc = "difc" THEN [words |-> {"article", "section"}, ci |-> TRUE, parens |-> FALSE]
    ELSE [words |-> {"section", "rule", "regulation"}, ci |-> TRUE, parens |-> FALSE]

\* C16: a provision extracted from an "Article N" marker has provision_ref
\* "art" followed by N, one extracted from a "Section N" (or "Rule N",
\* "Regulation N") marker has "s" followed by N.
C16_PrefixFollowsMarker ==
    fpc \in {"federal", "difc", "adgm"} =>
        LET ms == Matches(fin, 1, MarkerForm)
        IN  \A k \in 1..Len(ms) :
                Len(stripHtml(ms[k].raw)) > MinContent =>
                    \E i \in 1..Len(fout.provisions) :
                        fout.provisions[i].provision_ref =
                            (IF StartsAtCI(fin, ms[k].index, "article") THEN "art" ELSE "s") \o ms[k].num

-----------------------------------------------------------------------------
(* Specification SpecStrip: stripHtml applied to one text *)

MaxParts == 3

TextParts ==
    {"<b>", "</b>", "<br/>", "&amp;", "&lt;", "&gt;", "&nbsp;", "lt;", "nbsp;", "b", " ", "\n", "^"}

RECURSIVE TextsOf(_)
TextsOf(n) == IF n = 0 THEN {""} ELSE {g \o t : g \in TextParts, t \in TextsOf(n - 1)}

Texts == UNION {TextsOf(n) : n \in 0..MaxParts}

InitStrip ==
    /\ docs = <<>>
    /\ provs = <<>>
    /\ eu = NoEuTable
    /\ NoCall
    /\ NoIngestion
    /\ fin \in Texts
    /\ fout = ""
    /\ fpc = "start"

StripHtmlCall ==
    /\ fpc = "start"
    /\ fout' = stripHtml(fin)
    /\ fpc' = "done"
    /\ UNCHANGED <<docs, provs, eu, tool, arg, res, fin>>
    /\ UNCHANGED ingestVars

NextStrip == StripHtmlCall

SpecStrip == InitStrip /\ [][NextStrip]_vars

\* C10: stripHtml applied to its own output returns that output unchanged.
C10_Idempotent == fpc = "done" => stripHtml(fout) = fout

-----------------------------------------------------------------------------
(* Specification SpecFormat: formatCitationTool applied to one input *)

FormatLawTexts ==
    {"Federal Decree-Law No. 45 of 2021", "DIFC Law No. 5 of 2020 (Data Protection)",
     "adgm Regulations 2021", "ADGMX Rules (2021)", "PDPL"}

FormatMarkers == {"Article", "Art.", "Section", "s.", "s", ArArticle}

FormatSeparators == {", ", " ", ","}

FormatCitations ==
    {w \o g \o n \o p \o l :
        w \in FormatMarkers, g \in Gaps, n \in Numbers, p \in FormatSeparators, l \in FormatLawTexts}
    \cup {l \o p \o w \o g \o n :
        l \in FormatLawTexts, p \in {", ", " ;", ","}, w \in FormatMarkers \ {"s."}, g \in Gaps, n \in Numbers}
    \cup FormatLawTexts
    \cup {" PDPL ", "DIFC", "", "s 5 Law, Art. 2"}

Formats == {Null, "full", "short", "pinpoint"}

FormatInputs == {[citation |-> c, format |-> f] : c \in FormatCitations, f \in Formats}

InitFormat ==
    /\ docs = <<>>
    /\ provs = <<>>
    /\ eu = NoEuTable
    /\ NoCall
    /\ NoIngestion
    /\ fin \in FormatInputs
    /\ fout = FormatCitationResult("", "", "")
    /\ fpc = "start"

FormatCitationToolCall ==
    /\ fpc = "start"
    /\ fout' = formatCitationTool(fin)
    /\ fpc' = "done"
    /\ UNCHANGED <<docs, provs, eu, tool, arg, res, fin>>
    /\ UNCHANGED ingestVars

NextFormat == FormatCitationToolCall

SpecFormat == InitFormat /\ [][NextFormat]_vars

\* the text holds DIFC or ADGM, in any letter case, as a whole word
HasZoneToken(law) ==
    \E i \in 1..Len(law) : \E j \in i..Len(law) :
        /\ LowerStr(SubSeq(law, i, j)) \in {"difc", "adgm"}
        /\ i = 1 \/ At(law, i - 1) \notin WordChars
        /\ j = Len(law) \/ At(law, j + 1) \notin WordChars

C27_SameDecomposition ==
    fpc = "done" =>
        /\ formatParts(Trim(fin.citation)).article = parseCitation(fin.citation).articleRef
        /\ formatParts(Trim(fin.citation)).law = parseCitation(fin.citation).documentRef

\* C18: with an article number N and a law text L extracted, full (and no
\* format) gives "<Label> N, L", short "<Abbrev> N, <L before its first
\* parenthesis, trimmed>", pinpoint "<Abbrev> N"; without an article number
\* every format gives the trimmed input.
C18_ThreeFormats ==
    fpc = "done" =>
        LET parts == formatParts(Trim(fin.citation))
            N == parts.article
            L == parts.law
            P == {i \in 1..Len(L) : At(L, i) = "("}
            cut == Trim(IF P = {} THEN L ELSE SubSeq(L, 1, Min(P) - 1))
        IN  /\ N = "" => fout.formatted = Trim(fin.citation)
            /\ (N # "" /\ fin.format \in {Null, "full"}) =>
                    \E label \in {"Article", "Section"} : fout.formatted = label \o " " \o N \o ", " \o L
            /\ (N # "" /\ fin.format = "short") =>
                    \E abbrev \in {"Art.", "s"} : fout.formatted = abbrev \o " " \o N \o ", " \o cut
            /\ (N # "" /\ fin.format = "pinpoint") =>
                    \E abbrev \in {"Art.", "s"} : fout.formatted = abbrev \o " " \o N
            /\ fin.citation = "Article 2, Federal Decree-Law No. 45 of 2021" =>
                    /\ fin.format = "pinpoint" => fout.formatted = "Art. 2"
                    /\ fin.format = "full" =>
                            /\ Contains(fout.formatted, "Article 2")
                            /\ Contains(fout.formatted, "Federal Decree-Law No. 45 of 2021")

\* the short format of a citation whose law text has a parenthesis
C18_Witness ==
    /\ fpc = "done"
    /\ fin = [citation |-> "Art. 5A, DIFC Law No. 5 of 2020 (Data Protection)", format |-> "short"]
    /\ fout.formatted = "s 5A, DIFC Law No. 5 of 2020"

-----------------------------------------------------------------------------
(* Specification SpecIngest: one ingestion phase over a list of laws, every *)
(* fetch through fetchWithRateLimit                                           *)

MaxLaws == 2

LawEntries ==
    <<[id |-> "law-1", shortName |-> "L1", url |-> "/law-1"],
      [id |-> "law-2", shortName |-> "L2", url |-> "https://moj.gov.ae/law-2"],
      [id |-> "law-3", shortName |-> "L3", url |-> "/law-3"],
      [id |-> "law-4", shortName |-> "L4", url |-> "/law-4"]>>

Zones == {"federal", "difc", "adgm"}

\* the process has run for at least MIN_DELAY_MS since the epoch
InitIngest ==
    /\ docs = <<>>
    /\ provs = <<>>
    /\ eu = NoEuTable
    /\ NoCall
    /\ Idle
    /\ now = MIN_DELAY_MS
    /\ latency \in Latencies
    /\ lastRequestTime = 0
    /\ timer = 0
    /\ attempt = 0
    /\ response = 0
    /\ result = NoResult
    /\ error = Null
    /\ fetchPc = "idle"
    /\ requests = 0
    /\ lastSent = -1
    /\ prevSent = -1
    /\ laws \in {SubSeq(LawEntries, 1, n) : n \in 0..MaxLaws}
    /\ skipFetch \in BOOLEAN
    /\ phaseZone \in Zones
    /\ li = 1
    /\ ingestResults = <<>>
    /\ pageHtml = ""
    /\ ipc = "loop"
    /\ calls = <<>>

NextIngest ==
    \/ IngestLaw
    \/ RateLimit
    \/ RateLimitResume
    \/ Fetch
    \/ FetchResponse
    \/ FetchRejects
    \/ Continue
    \/ IngestFetched
    \/ IngestParse
    \/ IngestFetchFailed
    \/ IngestReturn

SpecIngest == InitIngest /\ [][NextIngest]_vars

\* C11: a fetchWithRateLimit call whose attempts were all answered with 429
\* or a 5xx status, the last of the maxRetries + 1 included, ends with the
\* error 'Failed to fetch <url> after <maxRetries> retries' and returns no
\* FetchResult.
C11_ExhaustedRetriesRaise ==
    (/\ fetchPc \in {"returned", "threw"}
     /\ requests = maxRetries + 1
     /\ response # 0
     /\ Retryable(response)) =>
        /\ fetchPc = "threw"
        /\ error = "Failed to fetch " \o fullUrl(phaseZone, laws[li].url) \o " after "
                        \o NumStr(maxRetries) \o " retries"

\* C12: a request is re-issued only after a 429 or 5xx response; the wait
\* before the k-th retry is 2000 * 2^(k-1) ms; a call sends at most
\* maxRetries + 1 requests; a response with another status is returned at
\* once, and a 429 or 5xx response is returned only when the retries are used
\* up.
C12_BackoffDoubles ==
    /\ requests <= maxRetries + 1
    /\ fetchPc = "backoff" =>
        /\ Retryable(response)
        /\ requests <= maxRetries
        /\ timer - now = 2000 * (2 ^ (requests - 1))
    /\ (fetchPc = "returned" /\ ~Retryable(response)) => result.status = response
    /\ (fetchPc = "returned" /\ Retryable(response)) => requests = maxRetries + 1

\* the third retry is awaited for eight seconds
C12_Witness ==
    /\ fetchPc = "backoff"
    /\ requests = 3
    /\ response = 429
    /\ timer - now = 8000

\* C13: a phase never ends with an exception; its results are one per law
\* handled so far, in the order of the list, and one per law at the return.
C13_OneResultPerLaw ==
    /\ ipc # "threw"
    /\ Len(ingestResults) <= Len(laws)
    /\ \A i \in 1..Len(ingestResults) : ingestResults[i].id = laws[i].id
    /\ ipc = "returned" => Len(ingestResults) = Len(laws)

\* C14: a law whose fetch returned an HTTP error status is recorded FAILED.
C14_HttpErrorIsFailed ==
    (ipc = "loop" /\ result # NoResult /\ result.status >= 400) =>
        StartsAt(ingestResults[Len(ingestResults)].status, 1, "FAILED")

\* C15: two consecutive outbound requests start at least MIN_DELAY_MS apart.
C15_MinimumSpacing ==
    (lastSent >= 0 /\ prevSent >= 0) => lastSent - prevSent >= MIN_DELAY_MS

-----------------------------------------------------------------------------
(* Specification SpecConcurrent: several fetchWithRateLimit calls in flight  *)
(* at once, each followed from its entry to its first request.  The calls    *)
(* share lastRequestTime and the clock; a call runs from one await to the     *)
(* next without interruption, and no time passes while a continuation is      *)
(* ready to run.                                                              *)

MaxCalls == 3

\* the clock stops here
MaxTime == 2000

\* the time that passes between two events, unless a timer is due earlier
TimeSteps == {100, 400}

\* a call that has not been made yet
NotCalled == [pc |-> "idle", readLast |-> -1, timer |-> -1, waited |-> FALSE, sent |-> -1]

Waiting == {c \in DOMAIN calls : calls[c].pc = "rateLimitWait"}

InitConcurrent ==
    /\ docs = <<>>
    /\ provs = <<>>
    /\ eu = NoEuTable
    /\ NoCall
    /\ Idle
    /\ now = MIN_DELAY_MS
    /\ latency = 0
    /\ lastRequestTime = 0
    /\ timer = 0
    /\ attempt = 0
    /\ response = 0
    /\ result = NoResult
    /\ error = Null
    /\ fetchPc = "idle"
    /\ requests = 0
    /\ lastSent = -1
    /\ prevSent = -1
    /\ laws = <<>>
    /\ skipFetch = FALSE
    /\ phaseZone = Null
    /\ li = 0
    /\ ingestResults = <<>>
    /\ pageHtml = ""
    /\ ipc = "off"
    /\ calls = [c \in 1..MaxCalls |-> NotCalled]

\* what no step of a concurrent call touches
callFrame ==
    <<latency, timer, attempt, response, result, error, fetchPc, requests, lastSent, prevSent,
      laws, skipFetch, phaseZone, li, ingestResults, pageHtml, ipc>>

\* a variant of the entry below that books the slot it waits for: the next
\* call queues behind it
CallRateLimit_booking(c) ==
    /\ calls[c].pc = "idle"
    /\ LET elapsed == now - lastRequestTime
       IN  IF elapsed < MIN_DELAY_MS
           THEN /\ calls' = [calls EXCEPT ![c] = [@ EXCEPT !.pc = "rateLimitWait",
                                                             !.readLast = lastRequestTime,
                                                             !.timer = now + (MIN_DELAY_MS - elapsed),
                                                             !.waited = TRUE]]
                /\ lastRequestTime' = now + (MIN_DELAY_MS - elapsed)
           ELSE /\ calls' = [calls EXCEPT ![c] = [@ EXCEPT !.pc = "fetch", !.readLast = lastRequestTime]]
                /\ lastRequestTime' = now
    /\ UNCHANGED now
    /\ UNCHANGED callFrame
    /\ UNCHANGED toolVars

\* fetchWithRateLimit is called: rateLimit up to its await, with now, elapsed
\* and the timer when too early
CallRateLimit(c) ==
    /\ calls[c].pc = "idle"
    /\ LET elapsed == now - lastRequestTime
       IN  IF elapsed < MIN_DELAY_MS
           THEN /\ calls' = [calls EXCEPT ![c] = [@ EXCEPT !.pc = "rateLimitWait",
                                                             !.readLast = lastRequestTime,
                                                             !.timer = now + (MIN_DELAY_MS - elapsed),
                                                             !.waited = TRUE]]
                /\ UNCHANGED lastRequestTime
           ELSE /\ calls' = [calls EXCEPT ![c] = [@ EXCEPT !.pc = "fetch", !.readLast = lastRequestTime]]
                /\ lastRequestTime' = now
    /\ UNCHANGED now
    /\ UNCHANGED callFrame
    /\ UNCHANGED toolVars

\* the timer of the call's rateLimit is due: lastRequestTime = Date.now()
CallRateLimitResume(c) ==
    /\ calls[c].pc = "rateLimitWait"
    /\ calls[c].timer = now
    /\ \A d \in DOMAIN calls : calls[d].pc # "fetch"
    /\ lastRequestTime' = now
    /\ calls' = [calls EXCEPT ![c] = [@ EXCEPT !.pc = "fetch"]]
    /\ UNCHANGED now
    /\ UNCHANGED callFrame
    /\ UNCHANGED toolVars

\* the call continues after await rateLimit(): its first fetch(url, ...)
CallFetch(c) ==
    /\ calls[c].pc = "fetch"
    /\ calls' = [calls EXCEPT ![c] = [@ EXCEPT !.pc = "sent", !.sent = now]]
    /\ UNCHANGED <<now, lastRequestTime>>
    /\ UNCHANGED callFrame
    /\ UNCHANGED toolVars

\* time passes while every call is at an await: up to the next timer
TimePasses ==
    /\ \A d \in DOMAIN calls : calls[d].pc # "fetch"
    /\ \A d \in Waiting : calls[d].timer > now
    /\ \E step \in TimeSteps :
        /\ now + step <= MaxTime
        /\ now' = Min({now + step} \cup {calls[d].timer : d \in Waiting})
    /\ UNCHANGED <<lastRequestTime, calls>>
    /\ UNCHANGED callFrame
    /\ UNCHANGED toolVars

NextConcurrent ==
    \/ \E c \in DOMAIN calls : CallRateLimit(c)
    \/ \E c \in DOMAIN calls : CallRateLimitResume(c)
    \/ \E c \in DOMAIN calls : CallFetch(c)
    \/ TimePasses

SpecConcurrent == InitConcurrent /\ [][NextConcurrent]_vars

\* the calls that wait in rateLimit for a timer that is not due yet
Pending == {c \in Waiting : calls[c].timer > now}

\* C22: nothing serialises concurrent calls.  Calls that wait in rateLimit at
\* the same time for timers not yet due have read the same lastRequestTime
\* and wait for the same instant, and two calls that waited after reading the
\* same lastRequestTime start their requests at the same instant, less than
\* MIN_DELAY_MS apart.
C22_ConcurrentCallsShareTheSlot ==
    \A c, d \in DOMAIN calls :
        /\ (c \in Pending /\ d \in Pending) =>
                /\ calls[c].readLast = calls[d].readLast
                /\ calls[c].timer = calls[d].timer
        /\ (/\ c # d
            /\ calls[c].pc = "sent" /\ calls[d].pc = "sent"
            /\ calls[c].waited /\ calls[d].waited
            /\ calls[c].readLast = calls[d].readLast) =>
                /\ calls[c].sent = calls[d].sent
                /\ calls[c].sent - calls[d].sent < MIN_DELAY_MS

\* two calls entered rateLimit at different times while a request was recent,
\* read the same lastRequestTime, waited, and sent their requests at the same
\* instant
C22_Witness ==
    \E c, d \in DOMAIN calls :
        /\ c # d
        /\ calls[c].pc = "sent" /\ calls[d].pc = "sent"
        /\ calls[c].waited /\ calls[d].waited
        /\ calls[c].readLast = calls[d].readLast
        /\ calls[c].readLast > 0
        /\ calls[c].sent = calls[d].sent

-----------------------------------------------------------------------------
(* Specification SpecStructure: the three HTML parsers applied to one page   *)
(* with numbers that carry a suffix and with chapter headings                 *)

MaxPieces == 3

\* pieces of a page: markers with and without a suffix, a body that is too
\* short, a heading closed by a tag and a heading that runs on
Pieces ==
    {"Article 5 abcdefg ", "Article 5A abcdefgh ", "Section 5A abcdefg ", "Section 6 abc ",
     "Part 1 - General<p>", "Chapter 2: Scope "}

RECURSIVE PiecePagesOf(_)
PiecePagesOf(n) == IF n = 0 THEN {""} ELSE {g \o p : g \in Pieces, p \in PiecePagesOf(n - 1)}

\* t repeated n times
RECURSIVE Repeated(_, _)
Repeated(t, n) ==
    IF n = 0 THEN ""
    ELSE IF n % 2 = 0 THEN Repeated(t \o t, n \div 2)
    ELSE t \o Repeated(t, n - 1)

\* a body of exactly the length that is stored whole, and one that is longer
FullBody == Repeated("abcdefghij", MaxContent \div 10)

LongPieces == {"Article 7 " \o FullBody \o " ", "Article 8 " \o FullBody \o "xyz ", "Section 8 " \o FullBody \o "xyz "}

LongPages == {g \o p : g \in {"", "Part 1 - General<p>"}, p \in LongPieces}

StructurePages == UNION {PiecePagesOf(n) : n \in 1..MaxPieces} \cup LongPages

InitStructure ==
    /\ docs = <<>>
    /\ provs = <<>>
    /\ eu = NoEuTable
    /\ NoCall
    /\ NoIngestion
    /\ fin \in StructurePages
    /\ fout = NoDocument
    /\ fpc = "start"

SpecStructure == InitStructure /\ [][NextExtract]_vars

\* the markers of the zone of the parser that ran, read as a word and a
\* number with its alphabetic suffix
SuffixedForm ==
    IF fpc = "federal" THEN [words |-> {"Article"}, ci |-> FALSE, parens |-> FALSE]
    ELSE IF fpc = "difc" THEN [words |-> {"article", "section"}, ci |-> TRUE, parens |-> FALSE]
    ELSE [words |-> {"section", "rule", "regulation"}, ci |-> TRUE, parens |-> FALSE]

\* C23: in every zone a marker whose number carries an alphabetic suffix
\* yields a provision that keeps the suffix: its section is the number with
\* the suffix and its provision_ref is "art" or "s" followed by it, so that
\* "Article 5" and "Article 5A" are two provisions.
C23_SuffixKept ==
    fpc \in {"federal", "difc", "adgm"} =>
        LET ms == Matches(fin, 1, SuffixedForm)
        IN  \A k \in 1..Len(ms) :
                Len(stripHtml(ms[k].raw)) > MinContent =>
                    \E i \in 1..Len(fout.provisions) :
                        /\ fout.provisions[i].section = ms[k].num
                        /\ fout.provisions[i].provision_ref \in {"art" \o ms[k].num, "s" \o ms[k].num}

\* the chapter pattern of the parser that ran
HeadingForm ==
    [arabic |-> FALSE,
     words |-> IF fpc = "adgm" THEN {"part", "chapter", "division"} ELSE {"chapter", "part"}]

\* one forward pass over the whole page with the chapter pattern: the
\* headings in the order in which they are met
RECURSIVE Headings(_, _, _)
RECURSIVE HeadingsAt(_, _, _)
HeadingsAt(s, chap, m) ==
    IF m = <<>> THEN <<>>
    ELSE <<[index |-> m[1], text |-> SubSeq(s, m[1], m[2] - 1)]>> \o Headings(s, m[2], chap)

Headings(s, i, chap) == HeadingsAt(s, chap, Leftmost(ChapterMatches(s, i, chap)))

\* the current chapter of the forward pass when it arrives at offset index
forwardChapter(s, index, chap) ==
    LET hs == Headings(s, 1, chap)
        I  == {j \in 1..Len(hs) : hs[j].index < index}
        j  == CHOOSE x \in I : \A y \in I : y <= x
    IN  IF I = {} THEN Null
        ELSE IF Trim(stripHtml(hs[j].text)) = "" THEN Null
        ELSE Trim(stripHtml(hs[j].text))

\* C24: the chapter of every extracted provision is the normalized text of
\* the last heading that starts before the provision's marker, absent when
\* there is none: the chapter that one forward pass over the page, with a
\* current chapter updated at every heading, has at the marker.
C24_ChapterOfForwardPass ==
    fpc \in {"federal", "difc", "adgm"} =>
        LET ms == Matches(fin, 1, MarkerForm)
        IN  \A i \in 1..Len(fout.provisions) :
                \E k \in 1..Len(ms) :
                    /\ fout.provisions[i].provision_ref = (IF fpc = "adgm" THEN "s" ELSE "art") \o ms[k].num
                    /\ fout.provisions[i].chapter = forwardChapter(fin, ms[k].index, HeadingForm)

\* C25: every provision of a parsed document has a content of more than 5
\* and at most 12000 characters, and it stems from a marker whose normalized
\* body has more than 5 characters: the content is that body when it has at
\* most 12000 characters and exactly its first 12000 characters otherwise.
C25_ContentLength ==
    fpc \in {"federal", "difc", "adgm"} =>
        LET ms == Matches(fin, 1, MarkerForm)
        IN  \A i \in 1..Len(fout.provisions) :
                /\ Len(fout.provisions[i].content) > MinContent
                /\ Len(fout.provisions[i].content) <= MaxContent
                /\ \E k \in 1..Len(ms) :
                       LET body == stripHtml(ms[k].raw)
                       IN  /\ fout.provisions[i].provision_ref = (IF fpc = "adgm" THEN "s" ELSE "art") \o ms[k].num
                           /\ Len(body) > MinContent
                           /\ fout.provisions[i].content =
                                  (IF Len(body) <= MaxContent THEN body ELSE SubSeq(body, 1, MaxContent))

\* a body of 12003 characters was stored as its first 12000
C25_Witness ==
    /\ fpc = "adgm"
    /\ fin = "Section 8 " \o FullBody \o "xyz "
    /\ Len(fout.provisions) = 1
    /\ fout.provisions[1].provision_ref = "s8"
    /\ fout.provisions[1].content = FullBody
    /\ Len(fout.provisions[1].content) = MaxContent

-----------------------------------------------------------------------------
(* Specification SpecLookup: get_provision and validate_citation against     *)
(* one document with several provisions                                      *)

MaxLookupProvs == 3

InitLookup ==
    /\ docs = <<Doc("fdl-1-2020", "Data Law", "Data Law", "PDPL", "in_force", "federal")>>
    /\ provs \in ProvTablesOf(docs, MaxLookupProvs)
    /\ eu = NoEuTable
    /\ NoCall
    /\ NoIngestion
    /\ Idle

NextLookup == GetProvisionCall \/ ValidateCitationCall \/ Return

SpecLookup == InitLookup /\ [][NextLookup]_vars

\* the reference of a get_provision input: article, else provision_ref,
\* else section
RefOf(input) == Coalesce(input.article, Coalesce(input.provision_ref, input.section))

\* get_provision was asked for one provision of a document that exists
LookedUp ==
    /\ tool = "get_provision"
    /\ Truthy(resolveDocumentId(docs, arg.document_id))
    /\ Truthy(RefOf(arg))

\* the provision_ref values of the rows of document id that the lookup
\* number k of get_provision accepts for reference r
LookupRefs(pt, id, r, k) ==
    IF k < 5 THEN RuleRefs(pt, id, r, k)
    ELSE {pt[i].provision_ref : i \in {j \in 1..Len(pt) :
              /\ pt[j].document_id = id
              /\ (Like(pt[j].provision_ref, "%" \o r \o "%") \/ Like(pt[j].section, "%" \o r \o "%"))}}

\* C26: get_provision looks the trimmed reference r up by provision_ref = r,
\* then "art" + r, then "s" + r, then section = r, then the LIKE match on
\* provision_ref or section; the result is one provision, accepted by the
\* first of these rules that accepts any row, and "not found" is answered
\* only when none of the five accepts a row.
C26_FirstRuleWins ==
    LookedUp =>
        LET id == resolveDocumentId(docs, arg.document_id)
            r  == Trim(RefOf(arg))
            H  == {k \in 1..5 : LookupRefs(provs, id, r, k) # {}}
        IN  /\ ~res.threw
            /\ H = {} =>
                   /\ res.results = <<>>
                   /\ res.metadata.note = "Provision \"" \o RefOf(arg) \o "\" not found in document \"" \o id \o "\""
            /\ H # {} =>
                   /\ Len(res.results) = 1
                   /\ res.results[1].provision_ref \in LookupRefs(provs, id, r, Min(H))
                   /\ res.metadata.note = Null

\* reference "2" with art12 stored before art2: the prefixed match art2 is
\* returned, not the substring match
C26_Witness ==
    /\ LookedUp
    /\ arg.article = "2"
    /\ Len(provs) = 2
    /\ provs[1].provision_ref = "art12"
    /\ provs[2].provision_ref = "art2"
    /\ Len(res.results) = 1
    /\ res.results[1].provision_ref = "art2"

\* the citation that names provision r of the document with the given id
CitationOf(r, id) == "Article " \o r \o ", " \o id

\* C28: validate_citation and get_provision agree on the lookup of reference
\* r in document d: when validate_citation reports the citation valid with
\* provision_ref p, get_provision returns exactly the provision p, and when
\* it reports that the provision was not found, get_provision returns none.
C28_LookupsAgree ==
    LookedUp =>
        LET id == resolveDocumentId(docs, arg.document_id)
            r  == Trim(RefOf(arg))
            v  == validateCitationTool(docs, provs, CitationOf(r, id))
        IN  (parseCitation(CitationOf(r, id)) = Hit(id, r) /\ ~v.threw) =>
                /\ (v.results.valid /\ v.results.provision_ref # Null) =>
                       /\ Len(res.results) = 1
                       /\ res.results[1].provision_ref = v.results.provision_ref
                /\ ~v.results.valid => res.results = <<>>

====
